---- MODULE Spec2Model ----
(***************************************************************************)
(* next-typesafe-api-route: the request validation-and-dispatch pipeline   *)
(* (createApiHandler / apiHandler), the documentation registry             *)
(* (createDocumentedApiHandler / registerOpenApiRoute) and the synthesis   *)
(* of the OpenAPI document (generateOpenApiDocument / createOpenApiRoute). *)
(*                                                                         *)
(* JavaScript values are modelled as records: `undefined` is Undefined, an *)
(* optional property is a field that is or is not in the DOMAIN of the     *)
(* record, a JSON object is a function from keys to values.                *)
(***************************************************************************)
EXTENDS Integers, Sequences, FiniteSets, TLC

VARIABLES
  req,              \* req[i]: the activation record of the i-th apiHandler call
  endpoints,        \* the calls of createDocumentedApiHandler, in order, each
                    \* with the handler it returned
  defaultRegistry,  \* the definitions of the module's OpenAPIRegistry
  customRegistry,   \* the definitions of a registry the caller made
  synth             \* the last document synthesized, and the call that made it

docVars == <<endpoints, defaultRegistry, customRegistry, synth>>
vars == <<req, endpoints, defaultRegistry, customRegistry, synth>>

----------------------------------------------------------------------------
(* JavaScript values                                                       *)

Undefined == [kind |-> "undefined"]

EmptyObject == <<>>

\* `a || b` on an optional property holding a number: absent and 0 are falsy.
OrNumber(r, field, default) ==
  IF field \in DOMAIN r /\ r[field] # 0 THEN r[field] ELSE default

\* `a || b` on an optional property holding a string: absent and "" are falsy.
OrString(r, field, default) ==
  IF field \in DOMAIN r /\ r[field] # "" THEN r[field] ELSE default

\* An optional property read: `r.field`, undefined when the property is absent.
Prop(r, field) == IF field \in DOMAIN r THEN r[field] ELSE Undefined

\* obj[key] = value
Put(obj, key, value) ==
  [k \in DOMAIN obj \cup {key} |-> IF k = key THEN value ELSE obj[k]]

\* A collection that keeps the first value of a key.
RECURSIVE FromEntries_FirstWins(_)
FromEntries_FirstWins(entries) ==
  IF entries = <<>> THEN EmptyObject
  ELSE Put(FromEntries_FirstWins(Tail(entries)), entries[1][1], entries[1][2])

\* entries.forEach((value, key) => { obj[key] = value }) over an empty object:
\* entries is the sequence of <<key, value>> pairs in iteration order.
RECURSIVE FromEntries(_)
FromEntries(entries) ==
  IF entries = <<>> THEN EmptyObject
  ELSE LET n == Len(entries)
       IN  Put(FromEntries(SubSeq(entries, 1, n - 1)), entries[n][1], entries[n][2])

----------------------------------------------------------------------------
(* Fixed values of the pipeline                                            *)

DefaultAuthStatus == 401
ValidationStatus == 400
InternalStatus == 500
OkStatus == 200

DefaultAuthError == "Unauthorized"
BodySentinel == [kind |-> "string", value |-> "Invalid JSON in request body"]
FormSentinel == [kind |-> "string", value |-> "Invalid form data"]
InternalError == "Internal server error"

BodylessMethods == {"GET", "HEAD"}

----------------------------------------------------------------------------
(* The schema capability (zod): safeParse(raw) either succeeds with the    *)
(* parsed data, fails with an error whose format() is an issue tree, or    *)
(* throws (a synchronous parse of a schema with asynchronous refinements). *)

Parsed(slot, raw) == [kind |-> "data", schema |-> slot, input |-> raw]
Issues(slot, raw) == [kind |-> "issues", schema |-> slot, input |-> raw]
Thrown(what) == [kind |-> "thrown", message |-> what]

SafeParse(slot, raw) ==
  { [success |-> TRUE, data |-> Parsed(slot, raw)],
    [success |-> FALSE, error |-> Issues(slot, raw)],
    [throws |-> Thrown("safeParse " \o slot)] }

----------------------------------------------------------------------------
(* Inputs                                                                  *)

SchemaKinds == {"none", "object"}

\* The options of createApiHandler that apiHandler reads.
PlainOptions ==
  [ auth : {Undefined, [kind |-> "auth"]},
    bodySchema : SchemaKinds, formDataSchema : SchemaKinds,
    querySchema : SchemaKinds, pathParamsSchema : SchemaKinds,
    headerSchema : SchemaKinds,
    responseSchema : {"none"}, openapi : {Undefined} ]

Methods == {"GET", "HEAD", "POST"}

\* The `context` argument: undefined, without params, with params.
Contexts == {Undefined, [kind |-> "context"],
             [kind |-> "context", params |-> [id |-> "42"]]}

SearchParamSamples == {<< <<"q", "a">>, <<"page", "1">>, <<"q", "bc">> >>}
HeaderSamples == {<< <<"x-custom", "abc123">> >>}
FormSamples == {<< <<"file", "blob">>, <<"description", "d">> >>}
JsonPayloads == {[foo |-> "bar"]}
Users == {[id |-> "u1"]}
HandlerOutputs == {[bar |-> "1"]}

\* What an AuthHandler may resolve to (types.ts AuthResult), or throw.
AuthFailures ==
  { [success |-> FALSE],
    [success |-> FALSE, status |-> 403, error |-> "Forbidden"],
    [success |-> FALSE, status |-> 0],
    [success |-> FALSE, error |-> ""],
    [success |-> FALSE, error |-> "Invalid or expired token", status |-> 401] }
AuthSuccesses ==
  { [success |-> TRUE] } \cup { [success |-> TRUE, user |-> u] : u \in Users }
AuthResults == AuthFailures \cup AuthSuccesses

Reqs == {1, 2}

----------------------------------------------------------------------------
(* The activation record of one apiHandler call                            *)

Idle ==
  [ pc |-> "idle",
    endpoint |-> 0,             \* index in endpoints of the handler called,
                                \* 0 for a handler made by createApiHandler
    options |-> Undefined, method |-> "", context |-> Undefined,
    searchParams |-> <<>>, headerEntries |-> <<>>,
    body |-> Undefined, query |-> Undefined, pathParams |-> Undefined,
    headers |-> Undefined, user |-> Undefined,
    errors |-> EmptyObject,
    authResult |-> Undefined,   \* what the auth handler resolved to
    verified |-> <<>>,          \* the tokens verifyToken was called with
    verifyOutcome |-> Undefined,  \* what verifyToken and transformUser did
    keysAsked |-> <<>>,         \* the keys the options.keys function was given
    keysAnswer |-> Undefined,   \* what the options.keys function did
    reads |-> {},               \* transport reads started: "json", "formData"
    readFailed |-> {},          \* transport reads that rejected
    applied |-> EmptyObject,    \* slot -> the raw value given to its schema
                                \*         and what safeParse did with it
    handlerCalls |-> 0, handlerArgs |-> Undefined,
    handlerOutput |-> Undefined,  \* what options.handler resolved to
    logged |-> Undefined,       \* what console.error was given
    response |-> Undefined ]

Json(status, body) == [status |-> status, body |-> body]

\* A catch that puts the thrown error's message in the response.
Caught_Leaks(r, error) ==
  [r EXCEPT !.pc = "done", !.logged = error,
            !.response = Json(InternalStatus, [error |-> error.message])]

\* The catch of lines 155-161.
Caught(r, error) ==
  [r EXCEPT !.pc = "done", !.logged = error,
            !.response = Json(InternalStatus, [error |-> InternalError])]

----------------------------------------------------------------------------
(* apiHandler, api-handler.ts lines 29-162                                 *)

\* line 29: the framework calls apiHandler(request, context) of the handler
\* that createApiHandler(o) returned.
Enter(i, e, o, m, ctx, sp, hs) ==
  /\ req[i].pc = "idle"
  /\ UNCHANGED docVars
  /\ req' = [req EXCEPT ![i] =
       [Idle EXCEPT !.pc = "auth", !.endpoint = e, !.options = o, !.method = m,
                    !.context = ctx, !.searchParams = sp,
                    !.headerEntries = hs]]

\* A failure response that always has status 401.
AuthFailureResponse_Always401(authResult) ==
  Json(DefaultAuthStatus,
       [error |-> OrString(authResult, "error", DefaultAuthError)])

\* lines 46-51: the response to a failed authentication.
AuthFailureResponse(authResult) ==
  Json(OrNumber(authResult, "status", DefaultAuthStatus),
       [error |-> OrString(authResult, "error", DefaultAuthError)])

\* A pipeline that does not stop at a failed authentication.
AfterAuth_Continue(r, authResult) ==
  [r EXCEPT !.pc = "body", !.authResult = authResult,
            !.user = Prop(authResult, "user")]

\* lines 46-53: what follows the auth handler's outcome.
AfterAuth(r, authResult) ==
  IF ~authResult.success
  THEN [r EXCEPT !.pc = "done", !.authResult = authResult,
                 !.response = AuthFailureResponse(authResult)]
  ELSE [r EXCEPT !.pc = "body", !.authResult = authResult,
                 !.user = Prop(authResult, "user")]

\* lines 40-44: call the auth handler if one is configured.
CallAuth(i) ==
  /\ req[i].pc = "auth"
  /\ UNCHANGED docVars
  /\ req' = [req EXCEPT ![i].pc =
       IF req[i].options.auth # Undefined THEN "awaitAuth" ELSE "body"]

\* lines 41-54: the auth handler, any function of the caller's, settles.
AuthSettles(i) ==
  /\ req[i].pc = "awaitAuth"
  /\ req[i].options.auth.kind = "auth"
  /\ UNCHANGED docVars
  /\ \/ \E a \in AuthResults : req' = [req EXCEPT ![i] = AfterAuth(@, a)]
     \/ req' = [req EXCEPT ![i] = Caught(@, Thrown("auth handler"))]

\* context?.params
ContextSuppliesParams(context) ==
  context # Undefined /\ "params" \in DOMAIN context

\* A body step that reads the body of every request.
ReadsBody_Always(method) == TRUE

\* A body step that answers at once when the body is rejected (fail-fast).
ParseBody_FailFast(r, raw, res) ==
  LET a == [r EXCEPT !.pc = "formData",
                     !.applied = Put(@, "body", [raw |-> raw, result |-> res])]
  IN  IF "throws" \in DOMAIN res
      THEN [a EXCEPT !.errors = Put(@, "body", BodySentinel)]
      ELSE IF res.success
      THEN [a EXCEPT !.body = res.data]
      ELSE [a EXCEPT !.pc = "aggregate", !.errors = Put(@, "body", res.error)]

\* A body step that reports a schema rejection as the fixed sentinel.
ParseBody_Opaque(r, raw, res) ==
  LET a == [r EXCEPT !.pc = "formData",
                     !.applied = Put(@, "body", [raw |-> raw, result |-> res])]
  IN  IF "throws" \in DOMAIN res \/ ~res.success
      THEN [a EXCEPT !.errors = Put(@, "body", BodySentinel)]
      ELSE [a EXCEPT !.body = res.data]

\* A body step whose schema is applied outside the inner try.
ParseBody_Rethrows(r, raw, res) ==
  LET a == [r EXCEPT !.pc = "formData",
                     !.applied = Put(@, "body", [raw |-> raw, result |-> res])]
  IN  IF "throws" \in DOMAIN res
      THEN Caught(a, res.throws)
      ELSE IF res.success
      THEN [a EXCEPT !.body = res.data]
      ELSE [a EXCEPT !.errors = Put(@, "body", res.error)]

\* lines 62-71: apply the body schema to rawBody; a throw is caught at 69.
ParseBody(r, raw, res) ==
  LET a == [r EXCEPT !.pc = "formData",
                     !.applied = Put(@, "body", [raw |-> raw, result |-> res])]
  IN  IF "throws" \in DOMAIN res
      THEN [a EXCEPT !.errors = Put(@, "body", BodySentinel)]
      ELSE IF res.success
      THEN [a EXCEPT !.body = res.data]
      ELSE [a EXCEPT !.errors = Put(@, "body", res.error)]

\* lines 69-71: request.json() rejected.
BodyUnreadable(r) ==
  [r EXCEPT !.pc = "formData", !.readFailed = @ \cup {"json"},
            !.errors = Put(@, "body", BodySentinel)]

\* line 59: GET and HEAD requests are given an empty object, not read.
ReadsBody(method) == method \notin BodylessMethods

\* lines 57-62: the body step up to its await.
BodyStep(i) ==
  /\ req[i].pc = "body"
  /\ UNCHANGED docVars
  /\ IF req[i].options.bodySchema = "none"
     THEN req' = [req EXCEPT ![i].pc = "formData"]
     ELSE IF ReadsBody(req[i].method)
     THEN req' = [req EXCEPT ![i].pc = "awaitJson",
                             ![i].reads = @ \cup {"json"}]
     ELSE \E res \in SafeParse("body", EmptyObject) :
            req' = [req EXCEPT ![i] = ParseBody(@, EmptyObject, res)]

\* lines 61-71: request.json() settles.
JsonSettles(i) ==
  /\ req[i].pc = "awaitJson"
  /\ UNCHANGED docVars
  /\ \/ \E raw \in JsonPayloads : \E res \in SafeParse("body", raw) :
          req' = [req EXCEPT ![i] = ParseBody(@, raw, res)]
     \/ req' = [req EXCEPT ![i] = BodyUnreadable(@)]

\* A form step that leaves alone a body the body step has parsed.
ParseForm_KeepsBody(r, raw, res) ==
  LET a == [r EXCEPT !.pc = "query",
                     !.applied = Put(@, "formData", [raw |-> raw, result |-> res])]
  IN  IF "throws" \in DOMAIN res
      THEN [a EXCEPT !.errors = Put(@, "formData", FormSentinel)]
      ELSE IF res.success
      THEN [a EXCEPT !.body = IF r.body # Undefined THEN r.body ELSE res.data]
      ELSE [a EXCEPT !.errors = Put(@, "formData", res.error)]

\* lines 84-93: apply the form schema to formDataObj; a throw is caught at 91.
ParseForm(r, raw, res) ==
  LET a == [r EXCEPT !.pc = "query",
                     !.applied = Put(@, "formData", [raw |-> raw, result |-> res])]
  IN  IF "throws" \in DOMAIN res
      THEN [a EXCEPT !.errors = Put(@, "formData", FormSentinel)]
      ELSE IF res.success
      THEN [a EXCEPT !.body = res.data]
      ELSE [a EXCEPT !.errors = Put(@, "formData", res.error)]

\* lines 91-93: request.formData() rejected.
FormUnreadable(r) ==
  [r EXCEPT !.pc = "query", !.readFailed = @ \cup {"formData"},
            !.errors = Put(@, "formData", FormSentinel)]

\* lines 75-77: the form-data step up to its await.
FormStep(i) ==
  /\ req[i].pc = "formData"
  /\ UNCHANGED docVars
  /\ IF req[i].options.formDataSchema = "none"
     THEN req' = [req EXCEPT ![i].pc = "query"]
     ELSE req' = [req EXCEPT ![i].pc = "awaitFormData",
                             ![i].reads = @ \cup {"formData"}]

\* lines 77-93: request.formData() settles.
FormDataSettles(i) ==
  /\ req[i].pc = "awaitFormData"
  /\ UNCHANGED docVars
  /\ \/ \E entries \in FormSamples :
          \E res \in SafeParse("formData", FromEntries(entries)) :
            req' = [req EXCEPT ![i] = ParseForm(@, FromEntries(entries), res)]
     \/ req' = [req EXCEPT ![i] = FormUnreadable(@)]

\* lines 103-109, 114-120, 130-136: a schema applied outside any inner try.
ParseSlot(r, slot, raw, res, next) ==
  LET a == [r EXCEPT !.pc = next,
                     !.applied = Put(@, slot, [raw |-> raw, result |-> res])]
  IN  IF "throws" \in DOMAIN res
      THEN Caught(a, res.throws)
      ELSE IF res.success
      THEN [a EXCEPT ![slot] = res.data]
      ELSE [a EXCEPT !.errors = Put(@, slot, res.error)]

\* lines 97-110
QueryStep(i) ==
  /\ req[i].pc = "query"
  /\ UNCHANGED docVars
  /\ IF req[i].options.querySchema = "none"
     THEN req' = [req EXCEPT ![i].pc = "pathParams"]
     ELSE LET queryParams == FromEntries(req[i].searchParams)
          IN  \E res \in SafeParse("query", queryParams) :
                req' = [req EXCEPT ![i] =
                          ParseSlot(@, "query", queryParams, res, "pathParams")]

\* A path-parameter step that validates an empty object when the context
\* supplies no params.
PathParamsStep_Strict(i) ==
  /\ req[i].pc = "pathParams"
  /\ UNCHANGED docVars
  /\ IF req[i].options.pathParamsSchema = "none"
     THEN req' = [req EXCEPT ![i].pc = "headers"]
     ELSE LET params == IF ContextSuppliesParams(req[i].context)
                        THEN req[i].context.params ELSE EmptyObject
          IN  \E res \in SafeParse("pathParams", params) :
                req' = [req EXCEPT ![i] =
                          ParseSlot(@, "pathParams", params, res, "headers")]

\* line 113: options.pathParamsSchema && context?.params
ValidatesPathParams(options, context) ==
  /\ options.pathParamsSchema # "none"
  /\ context # Undefined
  /\ "params" \in DOMAIN context

\* lines 113-121
PathParamsStep(i) ==
  /\ req[i].pc = "pathParams"
  /\ UNCHANGED docVars
  /\ IF ~ValidatesPathParams(req[i].options, req[i].context)
     THEN req' = [req EXCEPT ![i].pc = "headers"]
     ELSE \E res \in SafeParse("pathParams", req[i].context.params) :
            req' = [req EXCEPT ![i] =
                      ParseSlot(@, "pathParams", req[i].context.params, res,
                                "headers")]

\* lines 124-137
HeadersStep(i) ==
  /\ req[i].pc = "headers"
  /\ UNCHANGED docVars
  /\ IF req[i].options.headerSchema = "none"
     THEN req' = [req EXCEPT ![i].pc = "aggregate"]
     ELSE LET headerObj == FromEntries(req[i].headerEntries)
          IN  \E res \in SafeParse("headers", headerObj) :
                req' = [req EXCEPT ![i] =
                          ParseSlot(@, "headers", headerObj, res, "aggregate")]

\* A bundle whose query is read from a variable that every invocation
\* writes: it holds what the second invocation parsed, once it has.
Bundle_SharedQuery(r) ==
  [ body |-> r.body,
    query |-> IF req[2].query # Undefined THEN req[2].query ELSE r.query,
    pathParams |-> r.pathParams,
    headers |-> r.headers, user |-> r.user, request |-> "request" ]

\* lines 145-152: the bundle given to options.handler.
Bundle(r) ==
  [ body |-> r.body, query |-> r.query, pathParams |-> r.pathParams,
    headers |-> r.headers, user |-> r.user, request |-> "request" ]

\* An aggregation that dispatches whatever was recorded.
Aggregate_AlwaysDispatch(r) ==
  [r EXCEPT !.pc = "awaitHandler", !.handlerCalls = @ + 1,
            !.handlerArgs = Bundle(r)]

\* lines 140-152: answer 400 if any error was recorded, else call the handler.
Aggregate(r) ==
  IF DOMAIN r.errors # {}
  THEN [r EXCEPT !.pc = "done",
                 !.response = Json(ValidationStatus, [errors |-> r.errors])]
  ELSE [r EXCEPT !.pc = "awaitHandler", !.handlerCalls = @ + 1,
                 !.handlerArgs = Bundle(r)]

AggregateStep(i) ==
  /\ req[i].pc = "aggregate"
  /\ UNCHANGED docVars
  /\ req' = [req EXCEPT ![i] = Aggregate(@)]

\* A success response that wraps the output in an envelope.
Success_Envelope(r, output) ==
  [r EXCEPT !.pc = "done", !.response = Json(OkStatus, [data |-> output])]

\* line 154: NextResponse.json(output)
Success(r, output) ==
  [r EXCEPT !.pc = "done", !.response = Json(OkStatus, output)]

\* lines 145-154: options.handler settles.
HandlerSettles(i) ==
  /\ req[i].pc = "awaitHandler"
  /\ UNCHANGED docVars
  /\ \/ \E output \in HandlerOutputs :
          req' = [req EXCEPT ![i] =
                    Success([@ EXCEPT !.handlerOutput = output], output)]
     \/ req' = [req EXCEPT ![i] = Caught(@, Thrown("handler"))]

Pipeline(i) ==
  \/ CallAuth(i) \/ AuthSettles(i)
  \/ BodyStep(i) \/ JsonSettles(i)
  \/ FormStep(i) \/ FormDataSettles(i)
  \/ QueryStep(i) \/ PathParamsStep(i) \/ HeadersStep(i)
  \/ AggregateStep(i) \/ HandlerSettles(i)

\* A request to a handler made by createApiHandler(o).
EnterPlain(i) ==
  \E o \in PlainOptions, m \in Methods, ctx \in Contexts,
     sp \in SearchParamSamples, hs \in HeaderSamples :
       Enter(i, 0, o, m, ctx, sp, hs)

Init ==
  /\ req = [i \in Reqs |-> Idle]
  /\ endpoints = <<>>
  /\ defaultRegistry = <<>>
  /\ customRegistry = <<>>
  /\ synth = Undefined

NextPipeline == EnterPlain(1) \/ Pipeline(1)

\* One request at a time through a handler made by createApiHandler.
SpecPipeline == Init /\ [][NextPipeline]_vars

----------------------------------------------------------------------------
(* createDocumentedApiHandler and registerOpenApiRoute,                    *)
(* api-handler.ts lines 168-335                                            *)

\* A path is the sequence of its characters.

\* path.includes('{')
Includes(path, c) == \E k \in 1..Len(path) : path[k] = c

\* The index of the first c in path, 0 if there is none.
IndexOf(path, c) ==
  IF Includes(path, c)
  THEN CHOOSE k \in 1..Len(path) :
         path[k] = c /\ \A j \in 1..(k - 1) : path[j] # c
  ELSE 0

\* path.replace(/\[([^\]]+)\]/g, '{$1}'): scanning from the left, a `[`
\* followed by one or more characters other than `]` and then `]` becomes
\* `{`, those characters, `}`; the scan goes on after the match.
RECURSIVE ReplaceBrackets(_)
ReplaceBrackets(path) ==
  IF path = <<>> THEN <<>>
  ELSE LET close == IndexOf(path, "]")
       IN  IF Head(path) = "[" /\ close > 2
           THEN <<"{">> \o SubSeq(path, 2, close - 1) \o <<"}">>
                  \o ReplaceBrackets(SubSeq(path, close + 1, Len(path)))
           ELSE <<Head(path)>> \o ReplaceBrackets(Tail(path))

\* lines 239-241
OpenApiPath(path) ==
  IF Includes(path, "{") THEN path ELSE ReplaceBrackets(path)

\* method.toLowerCase()
ToLowerCase(method) ==
  CASE method = "GET" -> "get"
    [] method = "POST" -> "post"
    [] OTHER -> method

\* A zod schema given as an option: which option it is and its zod class.
Schema(option, zod) == [kind |-> "schema", of |-> option, zod |-> zod]
SchemaOrUndefined(option, zod) ==
  IF zod = "none" THEN Undefined ELSE Schema(option, zod)

\* lines 269-286: schema && (schema instanceof z.ZodObject || schema
\* instanceof z.ZodEffects) ? schema : undefined
ObjectSchemaOnly(option, zod) ==
  IF zod \in {"object", "effects"} THEN Schema(option, zod) ELSE Undefined

\* A request body that prefers the caller's descriptor to the schemas.
RequestBody_CustomFirst(options) ==
  IF "requestBody" \in DOMAIN options.openapi
  THEN options.openapi.requestBody
  ELSE IF options.bodySchema # "none"
  THEN [content |-> [type |-> "application/json",
                     schema |-> Schema("bodySchema", options.bodySchema)]]
  ELSE IF options.formDataSchema # "none"
  THEN [content |-> [type |-> "multipart/form-data",
                     schema |-> Schema("formDataSchema", options.formDataSchema)]]
  ELSE Undefined

\* lines 252-268
RequestBody(options) ==
  IF options.bodySchema # "none"
  THEN [content |-> [type |-> "application/json",
                     schema |-> Schema("bodySchema", options.bodySchema)]]
  ELSE IF options.formDataSchema # "none"
  THEN [content |-> [type |-> "multipart/form-data",
                     schema |-> Schema("formDataSchema", options.formDataSchema)]]
  ELSE Prop(options.openapi, "requestBody")

Generated(description, schema) ==
  [description |-> description,
   content |-> [type |-> "application/json", schema |-> schema]]

\* { ...a, ...b }
Spread(a, b) ==
  [k \in DOMAIN a \cup DOMAIN b |-> IF k \in DOMAIN b THEN b[k] ELSE a[k]]

\* Responses in which the generated entries are spread after the caller's.
Responses_GeneratedLast(options) ==
  LET ok == IF options.responseSchema # "none"
            THEN [s \in {"200"} |->
                    Generated("Successful response",
                              Schema("responseSchema", options.responseSchema))]
            ELSE EmptyObject
      fixed == [s \in {"400", "401", "500"} |->
                  CASE s = "400" -> Generated("Bad request", "{errors: record}")
                    [] s = "401" -> Generated("Unauthorized", "{error: string}")
                    [] s = "500" -> Generated("Internal server error",
                                              "{error: string}")]
      custom == IF "responses" \in DOMAIN options.openapi
                THEN options.openapi.responses ELSE EmptyObject
  IN  Spread(custom, Spread(ok, fixed))

\* lines 288-332
Responses(options) ==
  LET ok == IF options.responseSchema # "none"
            THEN [s \in {"200"} |->
                    Generated("Successful response",
                              Schema("responseSchema", options.responseSchema))]
            ELSE EmptyObject
      fixed == [s \in {"400", "401", "500"} |->
                  CASE s = "400" -> Generated("Bad request", "{errors: record}")
                    [] s = "401" -> Generated("Unauthorized", "{error: string}")
                    [] s = "500" -> Generated("Internal server error",
                                              "{error: string}")]
      custom == IF "responses" \in DOMAIN options.openapi
                THEN options.openapi.responses ELSE EmptyObject
  IN  Spread(Spread(ok, fixed), custom)

DefaultScheme == "bearerAuth"

\* [{ [name]: [] }, ...]: the list of security requirements, each the name of
\* a scheme with no scopes.
Requirements(names) == [kind |-> "requirements", schemes |-> names]

\* A security requirement declared for every endpoint.
Security_Always(options) ==
  IF options.auth # Undefined
  THEN Requirements(<< OrString(options.auth, "scheme", DefaultScheme) >>)
  ELSE Requirements(<< DefaultScheme >>)

\* line 333: a list of one requirement, which names one scheme
Security(options) ==
  IF options.auth # Undefined
  THEN Requirements(<< OrString(options.auth, "scheme", DefaultScheme) >>)
  ELSE Undefined

\* lines 244-334: the argument of registry.registerPath
RouteConfig(method, path, options) ==
  [ method |-> ToLowerCase(method),
    path |-> OpenApiPath(path),
    summary |-> options.openapi.summary,
    description |-> Prop(options.openapi, "description"),
    tags |-> Prop(options.openapi, "tags"),
    operationId |-> Prop(options.openapi, "operationId"),
    request |->
      [ body |-> RequestBody(options),
        query |-> ObjectSchemaOnly("querySchema", options.querySchema),
        headers |-> ObjectSchemaOnly("headerSchema", options.headerSchema),
        params |-> ObjectSchemaOnly("pathParamsSchema",
                                    options.pathParamsSchema) ],
    responses |-> Responses(options),
    security |-> Security(options) ]

\* A registry that keeps one entry for a method and path: a later route
\* takes the place of the earlier one.
RegisterPath_Upsert(definitions, route) ==
  LET same(k) == /\ definitions[k].route.method = route.method
                 /\ definitions[k].route.path = route.path
  IN  IF \E k \in 1..Len(definitions) : same(k)
      THEN [k \in 1..Len(definitions) |->
              IF same(k) THEN [type |-> "route", route |-> route]
              ELSE definitions[k]]
      ELSE Append(definitions, [type |-> "route", route |-> route])

\* OpenAPIRegistry.registerPath: the route is pushed on the definitions.
RegisterPath(definitions, route) ==
  Append(definitions, [type |-> "route", route |-> route])

\* A registration that trusts includeInDocs only when it is true.
ShouldRegister_OnlyIfTrue(options) ==
  /\ options.openapi # Undefined
  /\ "includeInDocs" \in DOMAIN options.openapi
  /\ options.openapi.includeInDocs

\* A registration that ignores includeInDocs.
ShouldRegister_Always(options) == options.openapi # Undefined

\* line 189: options.openapi && options.openapi.includeInDocs !== false
ShouldRegister(options) ==
  /\ options.openapi # Undefined
  /\ ~("includeInDocs" \in DOMAIN options.openapi
       /\ ~options.openapi.includeInDocs)

\* A handler that validates nothing.
ReturnedHandler_Bare(options) ==
  [options EXCEPT !.auth = Undefined, !.bodySchema = "none",
                  !.formDataSchema = "none", !.querySchema = "none",
                  !.pathParamsSchema = "none", !.headerSchema = "none"]

\* line 206: createApiHandler(options); the closure is the options it holds.
ReturnedHandler(options) == options

\* The registry argument: "omitted" takes the parameter's default (line 186).
RegistryArgs == {"omitted", "custom"}

MaxEndpoints == 2

\* lines 168-207
CreateDocumentedApiHandler(method, path, options, registryArg) ==
  /\ Len(endpoints) < MaxEndpoints
  /\ endpoints' = Append(endpoints,
       [method |-> method, path |-> path, options |-> options,
        registry |-> registryArg, handler |-> ReturnedHandler(options)])
  /\ IF ShouldRegister(options)
     THEN IF registryArg = "omitted"
          THEN /\ defaultRegistry' =
                    RegisterPath(defaultRegistry,
                                 RouteConfig(method, path, options))
               /\ UNCHANGED customRegistry
          ELSE /\ customRegistry' =
                    RegisterPath(customRegistry,
                                 RouteConfig(method, path, options))
               /\ UNCHANGED defaultRegistry
     ELSE UNCHANGED <<defaultRegistry, customRegistry>>
  /\ UNCHANGED <<req, synth>>

----------------------------------------------------------------------------
(* generateOpenApiDocument and createOpenApiRoute, openapi.ts              *)

\* lines 32-54
DefaultConfig ==
  [ title |-> "API Documentation", version |-> "1.0.0",
    description |-> "API documentation generated with next-typesafe-api",
    servers |-> "http://localhost:3000",
    securitySchemes |-> {"bearerAuth", "apiKeyAuth"} ]

Configs == {Undefined, [title |-> "My API", securitySchemes |-> {"oauth"}]}

\* A merge that assigns the caller's configuration onto defaultConfig itself,
\* so that a later call without configuration still sees it.
MergedConfig_Sticky(config) ==
  IF config = Undefined
  THEN IF synth = Undefined \/ synth.config = Undefined
       THEN DefaultConfig ELSE Spread(DefaultConfig, synth.config)
  ELSE Spread(DefaultConfig, config)

\* line 63: { ...defaultConfig, ...config }
MergedConfig(config) ==
  IF config = Undefined THEN DefaultConfig ELSE Spread(DefaultConfig, config)

\* OpenApiGeneratorV3.generateDocument: one operation per path and method of
\* the route definitions, the last definition of a path and method standing.
PathsOf(definitions) ==
  LET routes == {k \in 1..Len(definitions) : definitions[k].type = "route"}
      keys == {<<definitions[k].route.path, definitions[k].route.method>> :
                 k \in routes}
      last(key) ==
        CHOOSE k \in routes :
          /\ <<definitions[k].route.path, definitions[k].route.method>> = key
          /\ \A j \in routes :
               <<definitions[j].route.path, definitions[j].route.method>> = key
                 => j <= k
  IN  [key \in keys |-> definitions[last(key)].route]

\* line 64: registry?.definitions ?? []
DefinitionsOf(registryArg) ==
  CASE registryArg = "omitted" -> <<>>
    [] registryArg = "defaultRegistry" -> defaultRegistry
    [] registryArg = "custom" -> customRegistry

\* lines 63-74
GenerateOpenApiDocument(config, registryArg) ==
  [ openapi |-> "3.0.0",
    info |-> [title |-> MergedConfig(config).title,
              version |-> MergedConfig(config).version,
              description |-> MergedConfig(config).description],
    servers |-> MergedConfig(config).servers,
    paths |-> PathsOf(DefinitionsOf(registryArg)) ]

SynthRegistryArgs == {"omitted", "defaultRegistry", "custom"}

MaxSyntheses == 3

\* How many documents were synthesized so far.
SynthCalls == IF synth = Undefined THEN 0 ELSE synth.calls

\* The record of a synthesis: the call, the definitions the generator was
\* built from (line 64), the document returned, and how many documents were
\* synthesized so far.
Synthesis(via, config, registryArg) ==
  [via |-> via, config |-> config, registry |-> registryArg,
   definitions |-> DefinitionsOf(registryArg),
   document |-> GenerateOpenApiDocument(config, registryArg),
   calls |-> SynthCalls + 1]

\* lines 59-75: a call of generateOpenApiDocument(config, registry)
Generate(config, registryArg) ==
  /\ SynthCalls < MaxSyntheses
  /\ synth' = Synthesis("generateOpenApiDocument", config, registryArg)
  /\ UNCHANGED <<req, endpoints, defaultRegistry, customRegistry>>

\* lines 80-88: a call of the handler createOpenApiRoute(config, registry)
\* returned; Response.json(openApiDoc)
OpenApiHandler(config, registryArg) ==
  /\ SynthCalls < MaxSyntheses
  /\ synth' = Synthesis("openApiHandler", config, registryArg)
  /\ UNCHANGED <<req, endpoints, defaultRegistry, customRegistry>>

----------------------------------------------------------------------------
(* Specifications of the documentation side                                *)

BracketPath == <<"/", "a", "/", "[", "a", "]">>
BracePath == <<"/", "a", "/", "{", "a", "}">>
PlainPath == <<"/", "a">>

NoSchemas ==
  [ auth |-> Undefined, bodySchema |-> "none", formDataSchema |-> "none",
    querySchema |-> "none", pathParamsSchema |-> "none",
    headerSchema |-> "none", responseSchema |-> "none", openapi |-> Undefined ]

\* options.openapi: not given, includeInDocs omitted, true, false
Metadata ==
  { Undefined, [summary |-> "S"],
    [summary |-> "S", includeInDocs |-> TRUE],
    [summary |-> "S", includeInDocs |-> FALSE] }

Documented(options) == [options EXCEPT !.openapi = [summary |-> "S"]]

\* The calls of createDocumentedApiHandler of SpecDocs: a path in brackets
\* with any metadata and either registry, the same path in braces, and one
\* more method on the same path.
DocCalls ==
  [ method : {"get"}, path : {BracketPath},
    options : { [NoSchemas EXCEPT !.openapi = md] : md \in Metadata },
    registry : RegistryArgs ]
  \cup { [method |-> "get", path |-> BracePath,
          options |-> Documented(NoSchemas), registry |-> "omitted"],
         [method |-> "post", path |-> BracketPath,
          options |-> Documented(NoSchemas), registry |-> "omitted"] }

Define ==
  \E c \in DocCalls :
    CreateDocumentedApiHandler(c.method, c.path, c.options, c.registry)

Synthesize ==
  \E config \in Configs, registryArg \in SynthRegistryArgs :
    \/ Generate(config, registryArg)
    \/ OpenApiHandler(config, registryArg)

NextDocs == Define \/ Synthesize

\* Endpoint definitions and syntheses of the document, in any order.
SpecDocs == Init /\ [][NextDocs]_vars

\* The variable segments and literals a path is made of.
Segments ==
  { <<"a">>, <<"[", "a", "]">>, <<"[", "b", "]">>,
    <<"{", "a", "}">>, <<"{", "b", "}">> }

MaxSegments == 3

RECURSIVE PathsOfLength(_)
PathsOfLength(n) ==
  IF n = 0 THEN {<<>>}
  ELSE {p \o <<"/">> \o seg : p \in PathsOfLength(n - 1), seg \in Segments}

Paths == UNION {PathsOfLength(n) : n \in 0..MaxSegments}

DefinePath ==
  \E path \in Paths :
    /\ endpoints = <<>>
    /\ CreateDocumentedApiHandler("get", path, Documented(NoSchemas), "omitted")

\* One documented endpoint, of any path of at most MaxSegments segments.
SpecPath == Init /\ [][DefinePath]_vars

\* options.auth: none, without a scheme name, with one, with an empty one.
AuthOptions ==
  { Undefined, [kind |-> "auth"], [kind |-> "auth", scheme |-> "apiKeyAuth"],
    [kind |-> "auth", scheme |-> ""] }

CustomResponse(description) == [description |-> description]

\* openapi.responses: not given, a status of its own, statuses that collide
\* with generated ones.
CustomResponses ==
  { Undefined,
    [s \in {"404"} |-> CustomResponse("Not found")],
    [s \in {"200", "400"} |-> CustomResponse("Custom " \o s)],
    [s \in {"401", "500", "204"} |-> CustomResponse("Custom " \o s)] }

\* openapi.requestBody: not given, or a descriptor of the caller's.
CustomRequestBodies ==
  { Undefined,
    [content |-> [type |-> "multipart/form-data",
                  schema |-> [kind |-> "openapi schema",
                              of |-> "file upload"]]] }

\* The metadata with the optional properties that are given.
MetadataWith(responses, requestBody) ==
  LET a == [summary |-> "S"]
      b == IF responses = Undefined THEN a ELSE Put(a, "responses", responses)
  IN  IF requestBody = Undefined THEN b ELSE Put(b, "requestBody", requestBody)

RouteOptions ==
  { [NoSchemas EXCEPT !.auth = a, !.bodySchema = b, !.formDataSchema = f,
                      !.responseSchema = r,
                      !.openapi = MetadataWith(rs, rb)] :
      a \in AuthOptions, b \in SchemaKinds, f \in SchemaKinds,
      r \in SchemaKinds, rs \in CustomResponses, rb \in CustomRequestBodies }

DefineRoute ==
  \E options \in RouteOptions :
    /\ endpoints = <<>>
    /\ CreateDocumentedApiHandler("post", BracketPath, options, "omitted")

\* One documented endpoint, of any auth, schemas and custom metadata.
SpecRoute == Init /\ [][DefineRoute]_vars

\* The calls of createDocumentedApiHandler of SpecSecurity: an endpoint with
\* any auth, in either registry.
DefineSecured ==
  \E auth \in AuthOptions, registryArg \in RegistryArgs :
    CreateDocumentedApiHandler(
      "get", PlainPath, [Documented(NoSchemas) EXCEPT !.auth = auth],
      registryArg)

NextSecurity == DefineSecured \/ Synthesize

\* Endpoints with and without auth, and syntheses of the document.
SpecSecurity == Init /\ [][NextSecurity]_vars

\* The endpoints of SpecDispatch: one that validates nothing and one with
\* auth and a schema for every slot, each included in the docs or excluded.
Validating ==
  [NoSchemas EXCEPT !.auth = [kind |-> "auth"], !.bodySchema = "object",
                    !.formDataSchema = "object", !.querySchema = "object",
                    !.pathParamsSchema = "object", !.headerSchema = "object"]

DispatchOptions ==
  { [o EXCEPT !.openapi = md] :
      o \in {NoSchemas, Validating},
      md \in {[summary |-> "S"], [summary |-> "S", includeInDocs |-> FALSE]} }

DefineForDispatch ==
  \E options \in DispatchOptions :
    CreateDocumentedApiHandler("post", PlainPath, options, "omitted")

\* A request to the handler that the e-th createDocumentedApiHandler returned.
EnterDocumented(i) ==
  \E e \in 1..Len(endpoints), m \in {"GET", "POST"},
     ctx \in {Undefined, [kind |-> "context", params |-> [id |-> "42"]]},
     sp \in SearchParamSamples, hs \in HeaderSamples :
       Enter(i, e, endpoints[e].handler, m, ctx, sp, hs)

NextDispatch == DefineForDispatch \/ EnterDocumented(1) \/ Pipeline(1)

\* Documented endpoints and a request to one of them.
SpecDispatch == Init /\ [][NextDispatch]_vars

\* The endpoints of SpecConcurrent: both have auth and a query schema, one
\* reads a JSON body and the other form data; both are in the docs.
ConcurrentOptions ==
  { [Documented(NoSchemas) EXCEPT !.auth = [kind |-> "auth"],
                                  !.querySchema = "object",
                                  !.bodySchema = "object"],
    [Documented(NoSchemas) EXCEPT !.auth = [kind |-> "auth"],
                                  !.querySchema = "object",
                                  !.formDataSchema = "object"] }

DefineConcurrent ==
  \E options \in ConcurrentOptions :
    CreateDocumentedApiHandler("post", PlainPath, options, "omitted")

\* The query string of the i-th request.
SearchParamsOf(i) ==
  IF i = 1 THEN << <<"q", "one">> >> ELSE << <<"q", "two">> >>

\* The i-th request, to the handler of any endpoint defined.
EnterConcurrent(i) ==
  \E e \in 1..Len(endpoints), hs \in HeaderSamples :
    Enter(i, e, endpoints[e].handler, "POST", Undefined, SearchParamsOf(i), hs)

NextConcurrent ==
  \/ DefineConcurrent
  \/ \E i \in Reqs : EnterConcurrent(i) \/ Pipeline(i)

\* Two requests in flight at once, to the same endpoint or to two.
SpecConcurrent == Init /\ [][NextConcurrent]_vars

----------------------------------------------------------------------------
(* bearerAuth, auth-handlers.ts lines 31-69, as options.auth.handler       *)

\* A header value is the sequence of its characters.
BearerPrefix == <<"B", "e", "a", "r", "e", "r", " ">>

\* s.startsWith(prefix)
StartsWith(s, prefix) ==
  Len(s) >= Len(prefix) /\ SubSeq(s, 1, Len(prefix)) = prefix

\* s.split(sep): the pieces of s between the occurrences of sep.
RECURSIVE Split(_, _)
Split(s, sep) ==
  IF ~Includes(s, sep) THEN << s >>
  ELSE LET k == IndexOf(s, sep)
       IN  << SubSeq(s, 1, k - 1) >> \o Split(SubSeq(s, k + 1, Len(s)), sep)

\* request.headers.get(name): the value, or null when there is no such header.
HeaderGet(entries, name) ==
  IF \E k \in 1..Len(entries) : entries[k][1] = name
  THEN [kind |-> "string",
        value |-> entries[CHOOSE k \in 1..Len(entries) :
                            entries[k][1] = name][2]]
  ELSE [kind |-> "null"]

\* !authHeader: null and the empty string are falsy.
NoHeader(authHeader) ==
  authHeader.kind = "null" \/ authHeader.value = <<>>

MissingOrInvalidHeader ==
  [success |-> FALSE, error |-> "Missing or invalid authorization header",
   status |-> 401]
InvalidOrExpiredToken ==
  [success |-> FALSE, error |-> "Invalid or expired token", status |-> 401]

\* A bearerAuth for which every request without a header fails.
BeforeVerify_Required(authHeader, options) ==
  IF NoHeader(authHeader) \/ ~StartsWith(authHeader.value, BearerPrefix)
  THEN [returns |-> MissingOrInvalidHeader]
  ELSE [verify |-> Split(authHeader.value, " ")[2]]

\* A bearerAuth that verifies the token of any scheme.
BeforeVerify_AnyScheme(authHeader, options) ==
  IF "required" \in DOMAIN options /\ options.required = FALSE
     /\ NoHeader(authHeader)
  THEN [returns |-> [success |-> TRUE]]
  ELSE IF NoHeader(authHeader)
  THEN [returns |-> MissingOrInvalidHeader]
  ELSE [verify |-> Split(authHeader.value, " ")[2]]

\* lines 35-50: what bearerAuth does before it calls verifyToken: it returns
\* an outcome, or goes on to verify the token authHeader.split(' ')[1].
BeforeVerify(authHeader, options) ==
  IF "required" \in DOMAIN options /\ options.required = FALSE
     /\ NoHeader(authHeader)
  THEN [returns |-> [success |-> TRUE]]
  ELSE IF NoHeader(authHeader) \/ ~StartsWith(authHeader.value, BearerPrefix)
  THEN [returns |-> MissingOrInvalidHeader]
  ELSE [verify |-> Split(authHeader.value, " ")[2]]

\* lines 31-52: bearerAuth up to its await of verifyToken.
BearerAuthStep(i) ==
  /\ req[i].pc = "awaitAuth"
  /\ req[i].options.auth.kind = "bearerAuth"
  /\ UNCHANGED docVars
  /\ LET authHeader == HeaderGet(req[i].headerEntries, "authorization")
         step == BeforeVerify(authHeader, req[i].options.auth.options)
     IN  IF "returns" \in DOMAIN step
         THEN req' = [req EXCEPT ![i] = AfterAuth(@, step.returns)]
         ELSE req' = [req EXCEPT ![i].pc = "awaitVerify",
                                 ![i].verified = Append(@, step.verify)]

\* What verifyToken may resolve to.
Payloads == Users \cup {Undefined}

\* options.transformUser(payload)
TransformUser(payload) == [kind |-> "user", payload |-> payload]

\* What verifyToken and transformUser did: verifyToken resolved to a payload
\* and transformUser, if given, returned or threw; or verifyToken threw.
Verified(payload, transformThrew) ==
  [payload |-> payload, transformThrew |-> transformThrew]
VerifyThrew == [verifyThrew |-> TRUE]

\* lines 50-68: verifyToken settles; a rejection, and a throw of
\* transformUser, are caught at line 62.
VerifySettles(i) ==
  /\ req[i].pc = "awaitVerify"
  /\ UNCHANGED docVars
  /\ \/ \E payload \in Payloads :
          IF req[i].options.auth.options.transformUser
          THEN \/ req' = [req EXCEPT ![i] =
                     AfterAuth([@ EXCEPT !.verifyOutcome =
                                           Verified(payload, FALSE)],
                               [success |-> TRUE,
                                user |-> TransformUser(payload)])]
               \/ req' = [req EXCEPT ![i] =
                     AfterAuth([@ EXCEPT !.verifyOutcome =
                                           Verified(payload, TRUE)],
                               InvalidOrExpiredToken)]
          ELSE req' = [req EXCEPT ![i] =
                     AfterAuth([@ EXCEPT !.verifyOutcome =
                                           Verified(payload, FALSE)],
                               [success |-> TRUE, user |-> payload])]
     \/ req' = [req EXCEPT ![i] =
            AfterAuth([@ EXCEPT !.verifyOutcome = VerifyThrew],
                      InvalidOrExpiredToken)]

\* options.auth with bearerAuth as its handler: `required` omitted, true or
\* false, with or without transformUser.
BearerAuthOptions ==
  { [kind |-> "bearerAuth", scheme |-> "bearerAuth", options |-> o] :
      o \in [transformUser : BOOLEAN]
             \cup [required : BOOLEAN, transformUser : BOOLEAN] }

\* The Authorization header of a request: none, empty, a bearer token, a
\* bearer with an empty token, another scheme, the prefix in lower case.
AuthorizationSamples ==
  { <<>>,
    << <<"authorization", <<>> >> >>,
    << <<"authorization", BearerPrefix \o <<"t", "1">> >> >>,
    << <<"authorization", BearerPrefix >> >>,
    << <<"authorization", <<"B", "a", "s", "i", "c", " ", "x">> >> >>,
    << <<"authorization", <<"b", "e", "a", "r", "e", "r", " ", "t">> >> >> }

\* The endpoints of SpecBearer: one that validates path parameters only, one
\* with a schema for every slot; behind bearerAuth or another auth handler.
BearerEndpoints ==
  { [o EXCEPT !.auth = a] :
      o \in { [NoSchemas EXCEPT !.pathParamsSchema = "object"],
              [NoSchemas EXCEPT !.bodySchema = "object",
                                     !.formDataSchema = "object",
                                     !.querySchema = "object",
                                     !.pathParamsSchema = "object",
                                     !.headerSchema = "object"] },
      a \in BearerAuthOptions \cup {[kind |-> "auth"]} }

EnterBearer(i) ==
  \E o \in BearerEndpoints, m \in {"GET", "POST"},
     ctx \in {Undefined, [kind |-> "context", params |-> [id |-> "42"]]},
     hs \in AuthorizationSamples :
       Enter(i, 0, o, m, ctx, <<>>, hs)

NextBearer ==
  EnterBearer(1) \/ Pipeline(1) \/ BearerAuthStep(1) \/ VerifySettles(1)

\* One request at a time through a handler whose auth is bearerAuth.
SpecBearer == Init /\ [][NextBearer]_vars

----------------------------------------------------------------------------
(* apiKeyAuth, auth-handlers.ts lines 88-123, as options.auth.handler      *)

DefaultHeaderName == "x-api-key"
DefaultApiUser == [id |-> "api", role |-> "api", email |-> "api@example.com"]

\* line 92: options.headerName || 'x-api-key'
HeaderName(options) == OrString(options, "headerName", DefaultHeaderName)

\* !apiKey: null and the empty string are falsy.
NoKey(apiKey) == apiKey.kind = "null" \/ apiKey.value = ""

\* lines 96-100
MissingHeader(headerName) ==
  [success |-> FALSE, error |-> "Missing " \o headerName \o " header",
   status |-> 401]
\* lines 112-116
InvalidApiKey == [success |-> FALSE, error |-> "Invalid API key", status |-> 401]

\* lines 119-122: options.user || the default API user
ApiUser(options) ==
  IF "user" \in DOMAIN options THEN options.user ELSE DefaultApiUser

\* An apiKeyAuth that accepts every key.
AfterKeys_AnyKey(isValid, options) ==
  [success |-> TRUE, user |-> ApiUser(options)]

\* lines 111-122: what apiKeyAuth returns once isValid is known.
AfterKeys(isValid, options) ==
  IF ~isValid THEN InvalidApiKey
  ELSE [success |-> TRUE, user |-> ApiUser(options)]

\* options.keys.includes(apiKey)
KeysInclude(keys, apiKey) == \E k \in 1..Len(keys) : keys[k] = apiKey

\* lines 88-109: apiKeyAuth up to its await of the keys function; with a list
\* of keys it returns at once.
ApiKeyAuthStep(i) ==
  /\ req[i].pc = "awaitAuth"
  /\ req[i].options.auth.kind = "apiKeyAuth"
  /\ UNCHANGED docVars
  /\ LET options == req[i].options.auth.options
         headerName == HeaderName(options)
         apiKey == HeaderGet(req[i].headerEntries, headerName)
     IN  IF NoKey(apiKey)
         THEN req' = [req EXCEPT ![i] = AfterAuth(@, MissingHeader(headerName))]
         ELSE IF options.keys.kind = "function"
         THEN req' = [req EXCEPT ![i].pc = "awaitKeys",
                                 ![i].keysAsked = Append(@, apiKey.value)]
         ELSE req' = [req EXCEPT ![i] =
                AfterAuth(@, AfterKeys(KeysInclude(options.keys.items,
                                                   apiKey.value), options))]

\* line 106: the keys function settles; apiKeyAuth has no catch, so its
\* rejection reaches the catch of apiHandler.
KeysSettles(i) ==
  /\ req[i].pc = "awaitKeys"
  /\ UNCHANGED docVars
  /\ \/ \E isValid \in BOOLEAN :
          req' = [req EXCEPT ![i] =
            AfterAuth([@ EXCEPT !.keysAnswer = [resolved |-> isValid]],
                      AfterKeys(isValid, req[i].options.auth.options))]
     \/ req' = [req EXCEPT ![i] =
            Caught([@ EXCEPT !.keysAnswer = [threw |-> TRUE]],
                   Thrown("keys"))]

\* options.keys: a list of keys, or a function.
KeyLists == { <<>>, <<"k1", "k2">> }
KeysOptions ==
  { [kind |-> "list", items |-> l] : l \in KeyLists }
    \cup { [kind |-> "function"] }

\* options.auth with apiKeyAuth as its handler: headerName omitted, empty or
\* given; user omitted or given.
ApiKeyAuthOptions ==
  { [kind |-> "apiKeyAuth", scheme |-> "apiKeyAuth", options |-> o] :
      o \in [keys : KeysOptions]
             \cup [keys : KeysOptions, headerName : {"", "x-payment-signature"}]
             \cup [keys : KeysOptions, user : Users]
             \cup [keys : KeysOptions, headerName : {"x-payment-signature"},
                   user : Users] }

\* The headers of a request: none, a key under either name, an unknown key,
\* an empty value, a key under each name.
ApiKeySamples ==
  { <<>>,
    << <<"x-api-key", "k1">> >>,
    << <<"x-api-key", "bad">> >>,
    << <<"x-api-key", "">> >>,
    << <<"x-payment-signature", "k2">> >>,
    << <<"x-api-key", "bad">>, <<"x-payment-signature", "k1">> >>,
    << <<"x-api-key", "k1">>, <<"x-payment-signature", "bad">> >> }

\* The endpoints of SpecApiKey: one that validates path parameters only, one
\* with a schema for every slot; behind apiKeyAuth or another auth handler.
ApiKeyEndpoints ==
  { [o EXCEPT !.auth = a] :
      o \in { [NoSchemas EXCEPT !.pathParamsSchema = "object"],
              [NoSchemas EXCEPT !.bodySchema = "object",
                                !.formDataSchema = "object",
                                !.querySchema = "object",
                                !.pathParamsSchema = "object",
                                !.headerSchema = "object"] },
      a \in ApiKeyAuthOptions \cup {[kind |-> "auth"]} }

EnterApiKey(i) ==
  \E o \in ApiKeyEndpoints, m \in {"GET", "POST"},
     ctx \in {Undefined, [kind |-> "context", params |-> [id |-> "42"]]},
     hs \in ApiKeySamples :
       Enter(i, 0, o, m, ctx, <<>>, hs)

NextApiKey ==
  EnterApiKey(1) \/ Pipeline(1) \/ ApiKeyAuthStep(1) \/ KeysSettles(1)

\* One request at a time through a handler whose auth is apiKeyAuth.
SpecApiKey == Init /\ [][NextApiKey]_vars

----------------------------------------------------------------------------
(* Vocabulary of the properties                                            *)

Slots == {"body", "formData", "query", "pathParams", "headers"}

SchemaOption(slot) ==
  CASE slot = "body" -> "bodySchema"
    [] slot = "formData" -> "formDataSchema"
    [] slot = "query" -> "querySchema"
    [] slot = "pathParams" -> "pathParamsSchema"
    [] slot = "headers" -> "headerSchema"

Started(r) == r.pc # "idle"
Finished(r) == r.pc = "done"
Configured(r, slot) == r.options[SchemaOption(slot)] # "none"
AuthConfigured(r) == r.options.auth # Undefined
AuthFailed(r) == r.authResult # Undefined /\ ~r.authResult.success
AuthSucceeded(r) == r.authResult # Undefined /\ r.authResult.success
AuthPassed(r) == ~AuthConfigured(r) \/ AuthSucceeded(r)
ContextHasParams(r) == r.context # Undefined /\ "params" \in DOMAIN r.context

\* The outer catch ran: an exception escaped a step of the pipeline.
Escaped(r) == r.logged # Undefined

\* The request got to line 140: it passed authentication and no validator
\* threw out of its step.
ReachedAggregation(r) ==
  /\ r.pc \in {"awaitHandler", "done"}
  /\ AuthPassed(r)
  /\ ~(Escaped(r) /\ r.handlerCalls = 0)

\* The slot's validator ran: its transport read was started or its schema
\* was applied.
Ran(r, slot) ==
  CASE slot = "body" -> "json" \in r.reads \/ "body" \in DOMAIN r.applied
    [] slot = "formData" -> "formData" \in r.reads
    [] OTHER -> slot \in DOMAIN r.applied

SchemaAccepted(r, slot) ==
  /\ slot \in DOMAIN r.applied
  /\ "success" \in DOMAIN r.applied[slot].result
  /\ r.applied[slot].result.success
SchemaRejected(r, slot) ==
  /\ slot \in DOMAIN r.applied
  /\ "success" \in DOMAIN r.applied[slot].result
  /\ ~r.applied[slot].result.success
SchemaThrew(r, slot) ==
  /\ slot \in DOMAIN r.applied
  /\ "throws" \in DOMAIN r.applied[slot].result

\* The slot's validator ran and did not produce a value.
Failed(r, slot) ==
  \/ slot = "body" /\ "json" \in r.readFailed
  \/ slot = "formData" /\ "formData" \in r.readFailed
  \/ SchemaRejected(r, slot)
  \/ SchemaThrew(r, slot)

FailedSlots(r) == {slot \in Slots : Failed(r, slot)}

NeverParsed == [kind |-> "never parsed"]
ParsedValue(r, slot) ==
  IF SchemaAccepted(r, slot) THEN r.applied[slot].result.data ELSE NeverParsed

----------------------------------------------------------------------------
(* C1 *)

\* Before the auth handler of an endpoint with auth has settled, nothing was
\* read, parsed or dispatched.
NothingBeforeAuth(r) ==
  (AuthConfigured(r) /\ r.authResult = Undefined)
    => r.reads = {} /\ DOMAIN r.applied = {} /\ r.handlerCalls = 0

\* After a failed authentication the request is over and nothing was read,
\* parsed or dispatched.
NothingAfterAuthFailure(r) ==
  AuthFailed(r)
    => /\ Finished(r)
       /\ r.reads = {} /\ DOMAIN r.applied = {} /\ r.handlerCalls = 0

\* C1 as stated: authentication comes first; a failed authentication ends the
\* request with no read, no parse and no dispatch, and the response carries
\* the outcome's status (401 when absent) and {error: the outcome's error, or
\* "Unauthorized" when absent}.
C1_AsStated ==
  \A i \in Reqs : Started(req[i]) =>
    /\ NothingBeforeAuth(req[i])
    /\ NothingAfterAuthFailure(req[i])
    /\ AuthFailed(req[i]) =>
         /\ req[i].response.status =
              (IF "status" \in DOMAIN req[i].authResult
               THEN req[i].authResult.status ELSE 401)
         /\ req[i].response.body =
              [error |-> IF "error" \in DOMAIN req[i].authResult
                         THEN req[i].authResult.error ELSE "Unauthorized"]

\* C1 amended: as above, but the defaults also replace a status of 0 and an
\* empty error string (the code takes the default for every falsy value).
C1_AuthShortCircuit ==
  \A i \in Reqs : Started(req[i]) =>
    /\ NothingBeforeAuth(req[i])
    /\ NothingAfterAuthFailure(req[i])
    /\ AuthFailed(req[i]) =>
         /\ req[i].response.status =
              (IF "status" \in DOMAIN req[i].authResult
                  /\ req[i].authResult.status # 0
               THEN req[i].authResult.status ELSE 401)
         /\ req[i].response.body =
              [error |-> IF "error" \in DOMAIN req[i].authResult
                            /\ req[i].authResult.error # ""
                         THEN req[i].authResult.error ELSE "Unauthorized"]

\* An endpoint with body and query schemas whose auth handler reported a
\* failure with its own status and message.
C1_Witness ==
  \E i \in Reqs :
    /\ Started(req[i]) /\ AuthFailed(req[i])
    /\ Configured(req[i], "body") /\ Configured(req[i], "query")
    /\ req[i].response = [status |-> 403, body |-> [error |-> "Forbidden"]]

----------------------------------------------------------------------------
(* C2 *)

\* C2: the business handler is invoked at most once per request, and never
\* in a request whose errors mapping is not empty.
C2_DispatchExcludesErrors ==
  \A i \in Reqs :
    /\ req[i].handlerCalls <= 1
    /\ DOMAIN req[i].errors # {} => req[i].handlerCalls = 0

\* A finished request with two recorded errors and no dispatch.
C2_Witness ==
  \E i \in Reqs :
    /\ Finished(req[i])
    /\ {"query", "headers"} \subseteq DOMAIN req[i].errors
    /\ req[i].handlerCalls = 0
    /\ req[i].response.status = 400

----------------------------------------------------------------------------
(* C3 *)

\* The response to a request with failed slots: 400 and the errors mapping,
\* whose keys are exactly the failed slots.
ErrorsAreTheFailedSlots(r) ==
  /\ DOMAIN r.errors = FailedSlots(r)
  /\ FailedSlots(r) # {} =>
       /\ Finished(r)
       /\ r.response.status = 400
       /\ DOMAIN r.response.body = {"errors"}
       /\ DOMAIN r.response.body.errors = FailedSlots(r)

\* C3 as stated: in a request that passed authentication (and that no
\* exception ended), every configured validator ran, whatever failed before
\* it, and the response to any failure is 400 with exactly the failed slots.
C3_AsStated ==
  \A i \in Reqs : ReachedAggregation(req[i]) =>
    /\ \A slot \in Slots : Configured(req[i], slot) => Ran(req[i], slot)
    /\ ErrorsAreTheFailedSlots(req[i])

\* C3 amended: the path-parameter validator runs only if the context
\* supplies params; every other configured validator runs, whatever failed
\* before it; the response to any failure is 400 with exactly the failed
\* slots.
C3_NotFailFast ==
  \A i \in Reqs : ReachedAggregation(req[i]) =>
    /\ \A slot \in Slots :
         Ran(req[i], slot) <=>
           /\ Configured(req[i], slot)
           /\ slot = "pathParams" => ContextHasParams(req[i])
    /\ ErrorsAreTheFailedSlots(req[i])

\* All five validators ran although the first one had failed, and the
\* response names the three slots that failed.
C3_Witness ==
  \E i \in Reqs :
    /\ Finished(req[i])
    /\ \A slot \in Slots : Ran(req[i], slot)
    /\ "json" \in req[i].readFailed
    /\ FailedSlots(req[i]) = {"body", "query", "headers"}
    /\ req[i].response.status = 400
    /\ DOMAIN req[i].response.body.errors = {"body", "query", "headers"}

----------------------------------------------------------------------------
(* C4 *)

UserOf(r) ==
  IF AuthConfigured(r) /\ "user" \in DOMAIN r.authResult
  THEN r.authResult.user ELSE Undefined

\* The handler is called once and its output is the 200 response.
DispatchedOnce(r, bundle) ==
  /\ (ReachedAggregation(r) /\ DOMAIN r.errors = {}) =>
       /\ r.handlerCalls = 1
       /\ r.handlerArgs = bundle
  /\ (Finished(r) /\ r.handlerOutput # Undefined) =>
       r.response = [status |-> 200, body |-> r.handlerOutput]

\* C4 as stated: the bundle holds, for each slot, the schema's parsed value
\* if the slot's schema is configured and nothing otherwise.
C4_AsStated ==
  \A i \in Reqs : Started(req[i]) =>
    DispatchedOnce(req[i],
      [ body |-> IF Configured(req[i], "body")
                 THEN ParsedValue(req[i], "body") ELSE Undefined,
        query |-> IF Configured(req[i], "query")
                  THEN ParsedValue(req[i], "query") ELSE Undefined,
        pathParams |-> IF Configured(req[i], "pathParams")
                       THEN ParsedValue(req[i], "pathParams") ELSE Undefined,
        headers |-> IF Configured(req[i], "headers")
                    THEN ParsedValue(req[i], "headers") ELSE Undefined,
        user |-> UserOf(req[i]),
        request |-> "request" ])

\* C4 amended: the bundle's body is the form schema's parsed value if a form
\* schema is configured, else the body schema's if one is configured;
\* pathParams is the parsed value only if the schema is configured and the
\* context supplies params; query and headers are as stated; the user is the
\* auth outcome's; the response is 200 with the handler's output as its body.
C4_Dispatch ==
  \A i \in Reqs : Started(req[i]) =>
    DispatchedOnce(req[i],
      [ body |-> IF Configured(req[i], "formData")
                 THEN ParsedValue(req[i], "formData")
                 ELSE IF Configured(req[i], "body")
                 THEN ParsedValue(req[i], "body") ELSE Undefined,
        query |-> IF Configured(req[i], "query")
                  THEN ParsedValue(req[i], "query") ELSE Undefined,
        pathParams |-> IF Configured(req[i], "pathParams")
                          /\ ContextHasParams(req[i])
                       THEN ParsedValue(req[i], "pathParams") ELSE Undefined,
        headers |-> IF Configured(req[i], "headers")
                    THEN ParsedValue(req[i], "headers") ELSE Undefined,
        user |-> UserOf(req[i]),
        request |-> "request" ])

\* An authenticated POST with body, query, path-parameter and header schemas
\* was dispatched and answered 200 with the handler's output.
C4_Witness ==
  \E i \in Reqs :
    /\ Finished(req[i]) /\ req[i].handlerCalls = 1
    /\ AuthSucceeded(req[i]) /\ req[i].handlerArgs.user = [id |-> "u1"]
    /\ req[i].handlerArgs.body = Parsed("body", [foo |-> "bar"])
    /\ req[i].handlerArgs.query # Undefined
    /\ req[i].handlerArgs.pathParams # Undefined
    /\ req[i].handlerArgs.headers # Undefined
    /\ req[i].response = [status |-> 200, body |-> [bar |-> "1"]]

----------------------------------------------------------------------------
(* C5 *)

\* The auth handler threw (the request ended with no auth result), a schema
\* threw in a step that has no catch of its own, or the business handler threw
\* (it was called and the request ended with no output).
UncaughtThrow(r) ==
  \/ Finished(r) /\ AuthConfigured(r) /\ r.authResult = Undefined
  \/ \E slot \in {"query", "pathParams", "headers"} : SchemaThrew(r, slot)
  \/ Finished(r) /\ r.handlerCalls = 1 /\ r.handlerOutput = Undefined

\* C5: an exception thrown by the auth handler, by a validation step that
\* does not catch it, or by the business handler ends the request with status
\* 500 and the body {error: "Internal server error"}, which holds nothing of
\* the thrown error; the call itself never rejects.
C5_OpaqueInternalError ==
  \A i \in Reqs :
    /\ req[i].pc # "rejected"
    /\ UncaughtThrow(req[i]) => Escaped(req[i])
    /\ Escaped(req[i]) =>
         /\ Finished(req[i])
         /\ req[i].response =
              [status |-> 500, body |-> [error |-> "Internal server error"]]
         /\ req[i].response.body.error # req[i].logged.message

\* The business handler threw after a successful validation.
C5_Witness ==
  \E i \in Reqs :
    /\ Finished(req[i]) /\ req[i].handlerCalls = 1
    /\ req[i].logged = Thrown("handler")
    /\ req[i].response.status = 500

----------------------------------------------------------------------------
(* C6 *)

----------------------------------------------------------------------------
(* C7 *)

ExplicitlyExcluded(options) ==
  /\ options.openapi # Undefined
  /\ "includeInDocs" \in DOMAIN options.openapi
  /\ options.openapi.includeInDocs = FALSE

\* The step is a call of createDocumentedApiHandler.
IsDefinition == Len(endpoints') = Len(endpoints) + 1
Defined == endpoints'[Len(endpoints')]

\* How a request ends when it is validated and dispatched.
ValidatedAndDispatched(r) ==
  /\ ReachedAggregation(r) =>
       \A slot \in Slots :
         Ran(r, slot) <=> /\ Configured(r, slot)
                          /\ slot = "pathParams" => ContextHasParams(r)
  /\ Finished(r) =>
       \/ AuthFailed(r) /\ r.handlerCalls = 0 /\ DOMAIN r.applied = {}
       \/ Escaped(r) /\ r.response.status = 500
       \/ /\ FailedSlots(r) # {} /\ r.handlerCalls = 0
          /\ r.response = [status |-> 400, body |-> [errors |-> r.errors]]
       \/ /\ FailedSlots(r) = {} /\ r.handlerCalls = 1
          /\ r.response = [status |-> 200, body |-> r.handlerOutput]

\* C7: a createDocumentedApiHandler call with includeInDocs = false leaves
\* the registries as they were, and the handler it returns holds the options
\* it was given, so a request to it is authenticated, validated and
\* dispatched like a request to an included endpoint.
C7_ExcludedStillDispatches ==
  /\ [][ (IsDefinition /\ ExplicitlyExcluded(Defined.options))
           => UNCHANGED <<defaultRegistry, customRegistry>> ]_vars
  /\ [](\A i \in Reqs :
          (req[i].endpoint > 0
             /\ ExplicitlyExcluded(endpoints[req[i].endpoint].options)) =>
            /\ [req[i].options EXCEPT !.openapi = Undefined]
                 = [endpoints[req[i].endpoint].options
                      EXCEPT !.openapi = Undefined]
            /\ ValidatedAndDispatched(req[i]))

\* Only excluded endpoints were defined, nothing is registered, and a request
\* to the validating one was authenticated, validated and answered 200.
C7_Witness ==
  /\ \A e \in 1..Len(endpoints) : ExplicitlyExcluded(endpoints[e].options)
  /\ defaultRegistry = <<>> /\ customRegistry = <<>>
  /\ \E i \in Reqs :
       /\ req[i].endpoint > 0 /\ Finished(req[i])
       /\ AuthSucceeded(req[i])
       /\ SchemaAccepted(req[i], "body") /\ SchemaAccepted(req[i], "query")
       /\ req[i].handlerCalls = 1
       /\ req[i].response.status = 200

----------------------------------------------------------------------------
(* C8 *)

\* The call appended exactly one entry, for the endpoint, to the registry it
\* was given (the default registry when none was given).
AppendedOne ==
  LET entry == [type |-> "route",
                route |-> RouteConfig(Defined.method, Defined.path,
                                      Defined.options)]
  IN  IF Defined.registry = "omitted"
      THEN /\ defaultRegistry' = Append(defaultRegistry, entry)
           /\ UNCHANGED customRegistry
      ELSE /\ customRegistry' = Append(customRegistry, entry)
           /\ UNCHANGED defaultRegistry

\* C8 as stated: registration is skipped only for includeInDocs = false; in
\* every other case, also with no metadata at all, one entry is appended.
C8_AsStated ==
  [][ IsDefinition =>
        IF ExplicitlyExcluded(Defined.options)
        THEN UNCHANGED <<defaultRegistry, customRegistry>>
        ELSE Len(defaultRegistry') + Len(customRegistry')
               = Len(defaultRegistry) + Len(customRegistry) + 1 ]_vars

\* C8 amended: registration is skipped when includeInDocs = false and when no
\* documentation metadata is supplied; with metadata whose includeInDocs is
\* true or omitted, exactly one entry is appended.
C8_IncludedByDefault ==
  [][ IsDefinition =>
        IF ExplicitlyExcluded(Defined.options)
           \/ Defined.options.openapi = Undefined
        THEN UNCHANGED <<defaultRegistry, customRegistry>>
        ELSE AppendedOne ]_vars

\* An endpoint with metadata that omits includeInDocs is registered; one
\* without metadata was defined too and is not.
C8_Witness ==
  /\ Len(endpoints) = 2
  /\ endpoints[1].options.openapi = [summary |-> "S"]
  /\ endpoints[2].options.openapi = Undefined
  /\ Len(defaultRegistry) + Len(customRegistry) = 1

----------------------------------------------------------------------------
(* C9 *)

HasBracket(path) == Includes(path, "[") \/ Includes(path, "]")

\* path with every `[` written `{` and every `]` written `}`
AllBraces(path) ==
  [k \in 1..Len(path) |->
     CASE path[k] = "[" -> "{" [] path[k] = "]" -> "}" [] OTHER -> path[k]]

\* C9: the stored path of every registered endpoint has each [name] written
\* {name} and no square bracket left, whatever dialects the path uses; a path
\* in brace form is stored as it is; normalising a stored path changes
\* nothing.
C9_CanonicalPath ==
  \A e \in 1..Len(endpoints) : ShouldRegister(endpoints[e].options) =>
    \E k \in 1..Len(defaultRegistry) :
      LET stored == defaultRegistry[k].route.path
      IN  /\ stored = AllBraces(endpoints[e].path)
          /\ ~HasBracket(stored)
          /\ ~HasBracket(endpoints[e].path) => stored = endpoints[e].path
          /\ OpenApiPath(stored) = stored

----------------------------------------------------------------------------
(* C10 *)

\* The registry a synthesis is about: the one given, the default registry
\* when none is given.
RegistryMeant(registryArg) ==
  IF registryArg = "custom" THEN customRegistry ELSE defaultRegistry

\* C10: every document synthesized, by generateOpenApiDocument or by the
\* handler of createOpenApiRoute, has an operation for the path and method of
\* every entry of the registry, also when no registry argument is given and
\* the entries are in the default registry.
C10_DocumentEnumeratesRegistry ==
  [][ synth' # synth =>
        \A k \in 1..Len(RegistryMeant(synth'.registry)) :
          LET route == RegistryMeant(synth'.registry)[k].route
          IN  <<route.path, route.method>> \in DOMAIN synth'.document.paths
    ]_vars

----------------------------------------------------------------------------
(* C11 *)

\* The step is a synthesis of the document.
IsSynthesis == synth' # synth

\* C11: a synthesis leaves the entries of both registries as they were; a
\* synthesis that follows another returns the same paths when it is given
\* the same registry and the registry holds the definitions the earlier one
\* read, the same info and servers when it is given the same configuration,
\* and so the same document when both are the same.
C11_SynthesisIsPureRead ==
  [][ IsSynthesis =>
        /\ UNCHANGED <<defaultRegistry, customRegistry, endpoints>>
        /\ synth # Undefined =>
             /\ (/\ synth'.registry = synth.registry
                 /\ synth'.definitions = synth.definitions) =>
                  synth'.document.paths = synth.document.paths
             /\ synth'.config = synth.config =>
                  /\ synth'.document.info = synth.document.info
                  /\ synth'.document.servers = synth.document.servers
             /\ (/\ synth'.registry = synth.registry
                 /\ synth'.definitions = synth.definitions
                 /\ synth'.config = synth.config) =>
                  synth'.document = synth.document ]_vars

\* The third synthesis over a registry of two entries, which are still there,
\* returned a document with their operations.
C11_Witness ==
  /\ synth # Undefined /\ synth.calls = 3
  /\ synth.registry = "custom" /\ Len(customRegistry) = 2
  /\ synth.definitions = customRegistry
  /\ DOMAIN synth.document.paths # {}

----------------------------------------------------------------------------
(* C12 *)

IsPrefix(s, t) == Len(s) <= Len(t) /\ SubSeq(t, 1, Len(s)) = s

\* The entries that the registrations among the calls make in the registry
\* named, in call order: one for every call that is given documentation
\* metadata and is not excluded.
RECURSIVE EntriesOf(_, _)
EntriesOf(calls, registryArg) ==
  IF calls = <<>> THEN <<>>
  ELSE LET n == Len(calls)
           c == calls[n]
           earlier == EntriesOf(SubSeq(calls, 1, n - 1), registryArg)
       IN  IF c.registry = registryArg /\ ShouldRegister(c.options)
           THEN Append(earlier,
                       [type |-> "route",
                        route |-> RouteConfig(c.method, c.path, c.options)])
           ELSE earlier

\* C12: every step leaves the entries a registry had where they were, a
\* registration appends exactly one entry at the end of its registry, also
\* when an entry of the same method and canonical path is there already, and
\* so each registry holds one entry for each of its registrations, in call
\* order.
C12_AppendOnly ==
  /\ [][ /\ IsPrefix(defaultRegistry, defaultRegistry')
         /\ IsPrefix(customRegistry, customRegistry')
         /\ (IsDefinition /\ ShouldRegister(Defined.options)) => AppendedOne
      ]_vars
  /\ [](/\ defaultRegistry = EntriesOf(endpoints, "omitted")
        /\ customRegistry = EntriesOf(endpoints, "custom"))

\* Two registrations of the same method and canonical path, one written with
\* brackets and one with braces, left two entries in call order.
C12_Witness ==
  /\ Len(endpoints) = 2 /\ Len(defaultRegistry) = 2
  /\ endpoints[1].path = BracketPath /\ endpoints[2].path = BracePath
  /\ defaultRegistry[1].route.method = defaultRegistry[2].route.method
  /\ defaultRegistry[1].route.path = defaultRegistry[2].route.path
  /\ defaultRegistry[1].route.summary = endpoints[1].options.openapi.summary

----------------------------------------------------------------------------
(* C13 *)

\* The stored route of the e-th endpoint, which was registered: the entry of
\* its registry at the place of its registration.
StoredRoute(e) ==
  LET registry == IF endpoints[e].registry = "omitted"
                  THEN defaultRegistry ELSE customRegistry
      place == Len(EntriesOf(SubSeq(endpoints, 1, e), endpoints[e].registry))
  IN  registry[place].route

CustomResponsesOf(options) ==
  IF "responses" \in DOMAIN options.openapi
  THEN options.openapi.responses ELSE EmptyObject

\* The generated entry of a status: its description and the shape of its
\* JSON content.
IsGenerated(entry, description, schema) ==
  /\ entry.description = description
  /\ entry.content = [type |-> "application/json", schema |-> schema]

\* C13: the stored responses of a registered endpoint hold every custom
\* entry as the caller gave it; where no custom entry has the status, they
\* hold a generated 200 exactly when a response schema was given, and the
\* generated 400, 401 and 500; they hold nothing else.
C13_Responses ==
  \A e \in 1..Len(endpoints) : ShouldRegister(endpoints[e].options) =>
    LET options == endpoints[e].options
        stored == StoredRoute(e).responses
        custom == CustomResponsesOf(options)
    IN  /\ \A status \in DOMAIN custom : /\ status \in DOMAIN stored
                                          /\ stored[status] = custom[status]
        /\ {"400", "401", "500"} \subseteq DOMAIN stored
        /\ "200" \notin DOMAIN custom =>
             /\ "200" \in DOMAIN stored <=> options.responseSchema # "none"
             /\ "200" \in DOMAIN stored =>
                  IsGenerated(stored["200"], "Successful response",
                              [kind |-> "schema", of |-> "responseSchema",
                               zod |-> options.responseSchema])
        /\ "400" \notin DOMAIN custom =>
             IsGenerated(stored["400"], "Bad request", "{errors: record}")
        /\ "401" \notin DOMAIN custom =>
             IsGenerated(stored["401"], "Unauthorized", "{error: string}")
        /\ "500" \notin DOMAIN custom =>
             IsGenerated(stored["500"], "Internal server error",
                         "{error: string}")
        /\ DOMAIN stored \subseteq
             DOMAIN custom \cup {"200", "400", "401", "500"}

\* An endpoint with a response schema whose custom responses collide with
\* the generated 200 and 400: both stored entries are the custom ones, and
\* the generated 401 and 500 are kept.
C13_Witness ==
  /\ Len(endpoints) = 1 /\ Len(defaultRegistry) = 1
  /\ endpoints[1].options.responseSchema = "object"
  /\ DOMAIN CustomResponsesOf(endpoints[1].options) = {"200", "400"}
  /\ defaultRegistry[1].route.responses["200"] = [description |-> "Custom 200"]
  /\ defaultRegistry[1].route.responses["400"] = [description |-> "Custom 400"]
  /\ defaultRegistry[1].route.responses["401"].description = "Unauthorized"
  /\ DOMAIN defaultRegistry[1].route.responses = {"200", "400", "401", "500"}

----------------------------------------------------------------------------
(* C14 *)

\* The scheme name the endpoint's auth was given; the empty string is no name.
SchemeGiven(auth) == "scheme" \in DOMAIN auth /\ auth.scheme # ""

\* C14: a registered endpoint's stored route declares a security requirement
\* exactly when the endpoint has auth; it is then a list of one requirement,
\* which names the scheme the auth was given, or bearerAuth when it was given
\* no scheme name.
C14_Security ==
  \A e \in 1..Len(endpoints) : ShouldRegister(endpoints[e].options) =>
    LET auth == endpoints[e].options.auth
        security == StoredRoute(e).security
    IN  /\ security # Undefined <=> auth # Undefined
        /\ auth # Undefined =>
             /\ Len(security.schemes) = 1
             /\ security.schemes[1] = IF SchemeGiven(auth) THEN auth.scheme
                                       ELSE "bearerAuth"

\* An endpoint whose auth names the scheme apiKeyAuth: the stored route has
\* the one requirement apiKeyAuth.
C14_Witness ==
  /\ Len(endpoints) = 1 /\ Len(defaultRegistry) = 1
  /\ endpoints[1].options.auth = [kind |-> "auth", scheme |-> "apiKeyAuth"]
  /\ defaultRegistry[1].route.security.schemes = << "apiKeyAuth" >>

----------------------------------------------------------------------------
(* C15 *)

HasCustomRequestBody(options) == "requestBody" \in DOMAIN options.openapi

----------------------------------------------------------------------------
(* C16 *)

\* What one request, run alone, records as errors: for every slot that
\* failed, the slot's sentinel or its schema's issue tree.
ErrorsOf(r) ==
  [slot \in FailedSlots(r) |->
     IF SchemaRejected(r, slot) THEN r.applied[slot].result.error
     ELSE IF slot = "body" THEN BodySentinel ELSE FormSentinel]

\* What one request, run alone, gives its business handler.
BundleOf(r) ==
  [ body |-> IF Configured(r, "formData") THEN ParsedValue(r, "formData")
             ELSE IF Configured(r, "body") THEN ParsedValue(r, "body")
             ELSE Undefined,
    query |-> IF Configured(r, "query")
              THEN ParsedValue(r, "query") ELSE Undefined,
    pathParams |-> IF Configured(r, "pathParams") /\ ContextHasParams(r)
                   THEN ParsedValue(r, "pathParams") ELSE Undefined,
    headers |-> IF Configured(r, "headers")
                THEN ParsedValue(r, "headers") ELSE Undefined,
    user |-> UserOf(r), request |-> "request" ]

\* What one request, run alone, answers.
ResponseOf(r) ==
  IF UncaughtThrow(r)
  THEN [status |-> 500, body |-> [error |-> "Internal server error"]]
  ELSE IF AuthFailed(r)
  THEN [status |-> IF "status" \in DOMAIN r.authResult
                      /\ r.authResult.status # 0
                   THEN r.authResult.status ELSE 401,
        body |-> [error |-> IF "error" \in DOMAIN r.authResult
                               /\ r.authResult.error # ""
                            THEN r.authResult.error ELSE "Unauthorized"]]
  ELSE IF FailedSlots(r) # {}
  THEN [status |-> 400, body |-> [errors |-> ErrorsOf(r)]]
  ELSE [status |-> 200, body |-> r.handlerOutput]

\* The request's values are those of its own query string and payloads, its
\* bundle and its response are what it produces alone.
AsWhenAlone(r) ==
  /\ \A slot \in DOMAIN r.applied :
       r.applied[slot].raw =
         CASE slot = "query" -> FromEntries(r.searchParams)
           [] slot = "headers" -> FromEntries(r.headerEntries)
           [] slot = "pathParams" -> r.context.params
           [] OTHER -> r.applied[slot].raw
  /\ r.handlerCalls <= 1
  /\ r.handlerCalls = 1 <=>
       (ReachedAggregation(r) /\ FailedSlots(r) = {})
  /\ r.handlerCalls = 1 => r.handlerArgs = BundleOf(r)
  /\ r.response # Undefined <=> Finished(r)
  /\ Finished(r) => r.response = ResponseOf(r)

\* C16: a step of one invocation changes that invocation's record only and
\* leaves the other invocation, the endpoints and the registries as they
\* were; under every interleaving each invocation's bundle and response are
\* what the request produces alone.
C16_StatelessDispatch ==
  /\ [][ \A i \in Reqs : req'[i] # req[i] =>
           /\ \A j \in Reqs \ {i} : req'[j] = req[j]
           /\ UNCHANGED docVars ]_vars
  /\ [](\A i \in Reqs : Started(req[i]) => AsWhenAlone(req[i]))

\* Two requests to the same endpoint were in flight at once: the second is
\* suspended in its business handler with its own query, the first, which
\* overtook it, was answered 200 after being given its own query.
C16_Witness ==
  /\ req[1].endpoint = req[2].endpoint /\ Len(defaultRegistry) > 0
  /\ req[2].pc = "awaitHandler"
  /\ req[2].handlerArgs.query = Parsed("query", FromEntries(SearchParamsOf(2)))
  /\ Finished(req[1]) /\ req[1].response.status = 200
  /\ req[1].handlerArgs.query = Parsed("query", FromEntries(SearchParamsOf(1)))

----------------------------------------------------------------------------
(* C17 *)

HandlerReturned(r) == r.handlerCalls = 1 /\ r.handlerOutput # Undefined

\* C17 as stated: every response has status 200, 400, 401 or 500; 200 only
\* after the business handler returned, 400 only with a recorded error, 401
\* only on an authentication failure, 500 only on an exception; whatever
\* the auth handler returned.
C17_AsStated ==
  \A i \in Reqs : req[i].response # Undefined =>
    LET status == req[i].response.status
    IN  /\ status \in {200, 400, 401, 500}
        /\ status = 200 => HandlerReturned(req[i])
        /\ status = 400 => DOMAIN req[i].errors # {}
        /\ status = 401 => AuthFailed(req[i])
        /\ status = 500 => UncaughtThrow(req[i])

\* C17 amended: the response to an authentication failure has the status
\* the failure outcome carries, 401 when it carries none or 0; every other
\* response has status 200, 400 or 500; 200 only after the business handler
\* returned, 400 only with a recorded error, 500 only on an exception.
C17_StatusCodes ==
  \A i \in Reqs : req[i].response # Undefined =>
    LET status == req[i].response.status
    IN  IF AuthFailed(req[i])
        THEN status = IF "status" \in DOMAIN req[i].authResult
                         /\ req[i].authResult.status # 0
                      THEN req[i].authResult.status ELSE 401
        ELSE /\ status \in {200, 400, 500}
             /\ status = 200 => HandlerReturned(req[i])
             /\ status = 400 => DOMAIN req[i].errors # {}
             /\ status = 500 => UncaughtThrow(req[i])

\* The auth handler returned a failure that carries the status 403, and 403
\* is the status of the response.
C17_Witness ==
  \E i \in Reqs :
    /\ Finished(req[i]) /\ AuthFailed(req[i])
    /\ req[i].authResult = [success |-> FALSE, status |-> 403,
                            error |-> "Forbidden"]
    /\ req[i].response.status = 403

----------------------------------------------------------------------------
(* C18 *)

\* The request is to an endpoint whose auth is bearerAuth with required:
\* false, and it has no Authorization header.
OptionalAuthNoHeader(r) ==
  /\ Started(r) /\ AuthConfigured(r)
  /\ r.options.auth.kind = "bearerAuth"
  /\ "required" \in DOMAIN r.options.auth.options
  /\ r.options.auth.options.required = FALSE
  /\ \A k \in 1..Len(r.headerEntries) : r.headerEntries[k][1] # "authorization"

\* C18: with bearerAuth, required: false and no Authorization header,
\* verifyToken is never called, the auth outcome is success with no user,
\* the request goes on to validation, and when no slot fails (and nothing
\* throws) the business handler is called with user absent.
C18_OptionalAuth ==
  \A i \in Reqs : OptionalAuthNoHeader(req[i]) =>
    /\ req[i].verified = <<>> /\ req[i].pc # "awaitVerify"
    /\ req[i].pc \notin {"auth", "awaitAuth"} =>
         /\ req[i].authResult = [success |-> TRUE]
         /\ req[i].user = Undefined
    /\ Finished(req[i]) =>
         \/ UncaughtThrow(req[i])
         \/ FailedSlots(req[i]) # {} /\ req[i].response.status = 400
         \/ /\ req[i].handlerCalls = 1
            /\ req[i].handlerArgs.user = Undefined
            /\ req[i].response = [status |-> 200, body |-> req[i].handlerOutput]
    /\ \A slot \in Slots :
         (ReachedAggregation(req[i]) /\ Configured(req[i], slot)
            /\ (slot = "pathParams" => ContextHasParams(req[i])))
           => Ran(req[i], slot)

\* Such a request to an endpoint with a path-parameter schema was validated
\* and answered 200 by a handler that was given no user.
C18_Witness ==
  \E i \in Reqs :
    /\ OptionalAuthNoHeader(req[i]) /\ Finished(req[i])
    /\ req[i].verified = <<>>
    /\ req[i].authResult = [success |-> TRUE]
    /\ SchemaAccepted(req[i], "pathParams")
    /\ req[i].handlerCalls = 1 /\ req[i].handlerArgs.user = Undefined
    /\ req[i].response.status = 200

----------------------------------------------------------------------------
(* C19 *)

\* C19: the path-parameter schema is applied exactly when it is configured
\* and the context supplies params, and then to those params; when it is
\* configured and the context, or its params, is absent, the schema is not
\* applied, no pathParams error is recorded, and a request in which no other
\* slot fails is dispatched with pathParams absent.
C19_PathParamsNeedContext ==
  \A i \in Reqs : Started(req[i]) =>
    /\ "pathParams" \in DOMAIN req[i].applied =>
         /\ Configured(req[i], "pathParams") /\ ContextHasParams(req[i])
         /\ req[i].applied.pathParams.raw = req[i].context.params
    /\ (ReachedAggregation(req[i]) /\ Configured(req[i], "pathParams")
          /\ ContextHasParams(req[i])) =>
         "pathParams" \in DOMAIN req[i].applied
    /\ (Configured(req[i], "pathParams") /\ ~ContextHasParams(req[i])) =>
         /\ "pathParams" \notin DOMAIN req[i].applied
         /\ "pathParams" \notin DOMAIN req[i].errors
         /\ req[i].pathParams = Undefined
         /\ (ReachedAggregation(req[i])
              /\ FailedSlots(req[i]) \ {"pathParams"} = {}) =>
              /\ req[i].handlerCalls = 1
              /\ req[i].handlerArgs.pathParams = Undefined

\* A request to an endpoint with a path-parameter schema, with a context
\* that has no params, was dispatched without path parameters and answered
\* 200.
C19_Witness ==
  \E i \in Reqs :
    /\ Finished(req[i]) /\ Configured(req[i], "pathParams")
    /\ req[i].context = [kind |-> "context"]
    /\ "pathParams" \notin DOMAIN req[i].applied
    /\ req[i].handlerCalls = 1 /\ req[i].handlerArgs.pathParams = Undefined
    /\ req[i].response.status = 200

----------------------------------------------------------------------------
(* C20 *)

\* C20: in a GET or HEAD request to an endpoint with a body schema the
\* transport body is never read; the body schema is applied, to the empty
\* object; the body slot fails exactly when the schema does not accept the
\* empty object, and no sentinel comes from a body read.
C20_BodylessMethods ==
  \A i \in Reqs :
    (/\ Started(req[i]) /\ Configured(req[i], "body")
     /\ req[i].method \in {"GET", "HEAD"}) =>
      /\ "json" \notin req[i].reads /\ "json" \notin req[i].readFailed
      /\ req[i].pc # "awaitJson"
      /\ "body" \in DOMAIN req[i].applied =>
           req[i].applied.body.raw = EmptyObject
      /\ ReachedAggregation(req[i]) => "body" \in DOMAIN req[i].applied
      /\ "body" \in DOMAIN req[i].errors <=>
           ("body" \in DOMAIN req[i].applied /\ ~SchemaAccepted(req[i], "body"))
      /\ SchemaRejected(req[i], "body") =>
           req[i].errors.body = Issues("body", EmptyObject)
      /\ ("body" \in DOMAIN req[i].errors
            /\ req[i].errors.body =
                 [kind |-> "string", value |-> "Invalid JSON in request body"])
           => SchemaThrew(req[i], "body")

\* A GET to an endpoint with a body schema: nothing was read, the schema
\* accepted the empty object and the handler was given its parsed value.
C20_Witness ==
  \E i \in Reqs :
    /\ Finished(req[i]) /\ req[i].method = "GET"
    /\ Configured(req[i], "body") /\ ~Configured(req[i], "formData")
    /\ req[i].reads = {}
    /\ SchemaAccepted(req[i], "body")
    /\ req[i].applied.body.raw = EmptyObject
    /\ req[i].handlerCalls = 1
    /\ req[i].handlerArgs.body = Parsed("body", EmptyObject)

----------------------------------------------------------------------------
(* C21 *)

\* The flat mapping of a query string: one entry for every key that occurs,
\* holding the value of the key's last occurrence.
LastOccurrences(entries) ==
  LET keys == {entries[k][1] : k \in 1..Len(entries)}
      last(key) == CHOOSE k \in 1..Len(entries) :
                     /\ entries[k][1] = key
                     /\ \A j \in (k + 1)..Len(entries) : entries[j][1] # key
  IN  [key \in keys |-> entries[last(key)][2]]

\* C21: the value the query schema is applied to is the mapping of the last
\* occurrences of the keys of the query string, and the query the business
\* handler is given is the schema's parsed result of that mapping.
C21_QueryLastWins ==
  \A i \in Reqs : (Started(req[i]) /\ Configured(req[i], "query")) =>
    /\ "query" \in DOMAIN req[i].applied =>
         req[i].applied.query.raw = LastOccurrences(req[i].searchParams)
    /\ ReachedAggregation(req[i]) => "query" \in DOMAIN req[i].applied
    /\ req[i].handlerCalls = 1 =>
         req[i].handlerArgs.query =
           Parsed("query", LastOccurrences(req[i].searchParams))

\* The query string q=a&page=1&q=bc was validated as {q: "bc", page: "1"}
\* and the handler was given its parsed result.
C21_Witness ==
  \E i \in Reqs :
    /\ Finished(req[i]) /\ req[i].handlerCalls = 1
    /\ req[i].searchParams = << <<"q", "a">>, <<"page", "1">>, <<"q", "bc">> >>
    /\ SchemaAccepted(req[i], "query")
    /\ req[i].applied.query.raw = [q |-> "bc", page |-> "1"]
    /\ req[i].handlerArgs.query = Parsed("query", [q |-> "bc", page |-> "1"])

----------------------------------------------------------------------------
(* C22 *)

\* The security schemes a document declares (components.securitySchemes).
DeclaredSchemes(document) ==
  IF "securitySchemes" \in DOMAIN document
  THEN document.securitySchemes ELSE {}

\* The security schemes given to a synthesis: the caller's, or the defaults.
SchemesGiven(config) ==
  IF config # Undefined /\ "securitySchemes" \in DOMAIN config
  THEN config.securitySchemes
  ELSE {"bearerAuth", "apiKeyAuth"}

\* The scheme names the operations of a document refer to.
ReferencedSchemes(document) ==
  UNION { IF document.paths[key].security = Undefined THEN {}
          ELSE { document.paths[key].security.schemes[k] :
                   k \in 1..Len(document.paths[key].security.schemes) } :
          key \in DOMAIN document.paths }

\* C22: a synthesized document declares the security schemes the synthesis
\* was given (the caller's, or bearerAuth and apiKeyAuth), and every scheme
\* that the security requirement of one of its operations names.
C22_SecuritySchemesDeclared ==
  synth # Undefined =>
    /\ SchemesGiven(synth.config) \subseteq DeclaredSchemes(synth.document)
    /\ ReferencedSchemes(synth.document)
         \subseteq DeclaredSchemes(synth.document)

----------------------------------------------------------------------------
(* C23 *)

\* The request is to an endpoint whose auth handler is bearerAuth.
Bearer(r) ==
  Started(r) /\ AuthConfigured(r) /\ r.options.auth.kind = "bearerAuth"

\* bearerAuth has returned.
BearerReturned(r) == r.pc \notin {"auth", "awaitAuth", "awaitVerify"}

HeaderPresent(r) ==
  \E k \in 1..Len(r.headerEntries) : r.headerEntries[k][1] = "authorization"
Authorization(r) ==
  r.headerEntries[CHOOSE k \in 1..Len(r.headerEntries) :
                    r.headerEntries[k][1] = "authorization"][2]
HasBearerPrefix(r) ==
  /\ HeaderPresent(r) /\ Len(Authorization(r)) >= 7
  /\ SubSeq(Authorization(r), 1, 7) = <<"B", "e", "a", "r", "e", "r", " ">>
RequiredIsFalse(r) ==
  /\ "required" \in DOMAIN r.options.auth.options
  /\ r.options.auth.options.required = FALSE

MissingHeaderFailure(r) ==
  /\ r.authResult = [success |-> FALSE, status |-> 401,
                     error |-> "Missing or invalid authorization header"]
  /\ r.verified = <<>>

\* What follows the header check, and the pipeline's answer to a failure.
VerifiesAndAnswers(r) ==
  /\ r.authResult # Undefined
  /\ Len(r.verified) <= 1
  /\ r.verified # <<>> =>
       /\ HasBearerPrefix(r) /\ r.verifyOutcome # Undefined
       /\ ("verifyThrew" \in DOMAIN r.verifyOutcome
            \/ r.verifyOutcome.transformThrew) =>
            r.authResult = [success |-> FALSE, status |-> 401,
                            error |-> "Invalid or expired token"]
       /\ ("payload" \in DOMAIN r.verifyOutcome
            /\ ~r.verifyOutcome.transformThrew) =>
            r.authResult =
              [success |-> TRUE,
               user |-> IF r.options.auth.options.transformUser
                        THEN [kind |-> "user",
                              payload |-> r.verifyOutcome.payload]
                        ELSE r.verifyOutcome.payload]
  /\ HasBearerPrefix(r) => r.verified # <<>>
  /\ AuthFailed(r) =>
       /\ Finished(r) /\ r.handlerCalls = 0
       /\ r.response.status = 401
       /\ r.response.body = [error |-> r.authResult.error]

\* C23 as stated: bearerAuth always returns an outcome; it is the
\* missing-header failure, with verifyToken not called, when the header is
\* absent and required is not false and whenever the header is present
\* without the prefix `Bearer `; it is the invalid-token failure when
\* verifyToken or transformUser throws, else success with the transformed
\* payload or the payload; every failure is answered 401 with no dispatch.
C23_AsStated ==
  \A i \in Reqs : (Bearer(req[i]) /\ BearerReturned(req[i])) =>
    /\ (~HeaderPresent(req[i]) /\ ~RequiredIsFalse(req[i]))
         => MissingHeaderFailure(req[i])
    /\ (HeaderPresent(req[i]) /\ ~HasBearerPrefix(req[i]))
         => MissingHeaderFailure(req[i])
    /\ VerifiesAndAnswers(req[i])

\* C23 amended: an empty Authorization header counts as an absent one: with
\* required false it gives success with no user, otherwise the
\* missing-header failure; a non-empty header without the prefix gives the
\* missing-header failure whatever required is; the rest is as stated.
C23_BearerOutcomes ==
  \A i \in Reqs : (Bearer(req[i]) /\ BearerReturned(req[i])) =>
    LET empty == HeaderPresent(req[i]) /\ Authorization(req[i]) = <<>>
        none == ~HeaderPresent(req[i]) \/ empty
    IN  /\ (none /\ ~RequiredIsFalse(req[i]))
             => MissingHeaderFailure(req[i])
        /\ (none /\ RequiredIsFalse(req[i]))
             => req[i].authResult = [success |-> TRUE] /\ req[i].verified = <<>>
        /\ (~none /\ ~HasBearerPrefix(req[i]))
             => MissingHeaderFailure(req[i])
        /\ VerifiesAndAnswers(req[i])

\* With required false, a request with the header `Basic x` was answered 401
\* with the missing-header error, and verifyToken was not called.
C23_Witness ==
  \E i \in Reqs :
    /\ Bearer(req[i]) /\ Finished(req[i]) /\ RequiredIsFalse(req[i])
    /\ HeaderPresent(req[i])
    /\ Authorization(req[i]) = <<"B", "a", "s", "i", "c", " ", "x">>
    /\ req[i].verified = <<>> /\ req[i].handlerCalls = 0
    /\ req[i].response =
         [status |-> 401,
          body |-> [error |-> "Missing or invalid authorization header"]]

----------------------------------------------------------------------------
(* C24 *)

\* The request is to an endpoint whose auth handler is apiKeyAuth, and
\* apiKeyAuth has returned.
ApiKeyReturned(r) ==
  /\ Started(r) /\ AuthConfigured(r) /\ r.options.auth.kind = "apiKeyAuth"
  /\ r.authResult # Undefined

ConfiguredHeader(r) ==
  IF "headerName" \in DOMAIN r.options.auth.options
     /\ r.options.auth.options.headerName # ""
  THEN r.options.auth.options.headerName
  ELSE "x-api-key"

\* The configured header is present and not empty.
KeyPresent(r) ==
  \E k \in 1..Len(r.headerEntries) :
    r.headerEntries[k][1] = ConfiguredHeader(r) /\ r.headerEntries[k][2] # ""
KeyGiven(r) ==
  r.headerEntries[CHOOSE k \in 1..Len(r.headerEntries) :
                    r.headerEntries[k][1] = ConfiguredHeader(r)][2]

\* The key is in the list, or the keys function resolved true for it.
KeyAccepted(r) ==
  LET keys == r.options.auth.options.keys
  IN  IF keys.kind = "list"
      THEN \E k \in 1..Len(keys.items) : keys.items[k] = KeyGiven(r)
      ELSE r.keysAsked = <<KeyGiven(r)>> /\ r.keysAnswer = [resolved |-> TRUE]

\* C24: apiKeyAuth succeeds exactly when the configured header (x-api-key by
\* default) is present, not empty and its value accepted by the keys list or
\* function; the user is then the configured one or the default API user; a
\* missing header fails 401 "Missing <headerName> header" with the keys
\* function not called, a rejected key fails 401 "Invalid API key".
C24_ApiKeyOutcomes ==
  \A i \in Reqs : ApiKeyReturned(req[i]) =>
    LET r == req[i]
        o == r.options.auth.options
    IN  /\ r.authResult.success <=> (KeyPresent(r) /\ KeyAccepted(r))
        /\ r.authResult.success =>
             r.authResult =
               [success |-> TRUE,
                user |-> IF "user" \in DOMAIN o THEN o.user
                         ELSE [id |-> "api", role |-> "api",
                               email |-> "api@example.com"]]
        /\ ~KeyPresent(r) =>
             /\ r.authResult =
                  [success |-> FALSE, status |-> 401,
                   error |-> IF ConfiguredHeader(r) = "x-api-key"
                             THEN "Missing x-api-key header"
                             ELSE "Missing x-payment-signature header"]
             /\ r.keysAsked = <<>>
        /\ (KeyPresent(r) /\ ~KeyAccepted(r)) =>
             r.authResult = [success |-> FALSE, status |-> 401,
                             error |-> "Invalid API key"]

\* A request carrying a listed key under the configured header name
\* x-payment-signature, and an unlisted one under x-api-key, was
\* authenticated as the default API user.
C24_Witness ==
  \E i \in Reqs :
    /\ ApiKeyReturned(req[i])
    /\ ConfiguredHeader(req[i]) = "x-payment-signature"
    /\ req[i].options.auth.options.keys.kind = "list"
    /\ req[i].headerEntries =
         << <<"x-api-key", "bad">>, <<"x-payment-signature", "k1">> >>
    /\ req[i].authResult.success
    /\ req[i].user = [id |-> "api", role |-> "api", email |-> "api@example.com"]

----------------------------------------------------------------------------
(* C25 *)

BothConfigured(r) ==
  Started(r) /\ Configured(r, "body") /\ Configured(r, "formData")

\* The slot's step is over: its read failed or its schema was applied.
StepOver(r, slot) ==
  \/ slot \in DOMAIN r.applied
  \/ slot = "body" /\ "json" \in r.readFailed
  \/ slot = "formData" /\ "formData" \in r.readFailed

\* The request is past the form-data step.
PastFormStep(r) ==
  \/ r.pc \in {"query", "pathParams", "headers", "aggregate", "awaitHandler"}
  \/ r.pc = "done" /\ AuthPassed(r)

\* C25: with a body schema and a form schema on one endpoint, the form step
\* starts only when the body step is over, and both run; a failure of the
\* body step is recorded under `body` and one of the form step under
\* `formData`; when both succeed the handler's body is the form schema's
\* value; when only the form step fails the handler is not called.
C25_BodyThenForm ==
  \A i \in Reqs : BothConfigured(req[i]) =>
    LET r == req[i]
    IN  /\ Ran(r, "formData") => StepOver(r, "body")
        /\ PastFormStep(r) => StepOver(r, "body") /\ StepOver(r, "formData")
        /\ \A slot \in {"body", "formData"} :
             /\ Failed(r, slot) <=> slot \in DOMAIN r.errors
             /\ SchemaRejected(r, slot) =>
                  r.errors[slot] = r.applied[slot].result.error
             /\ (Failed(r, slot) /\ ~SchemaRejected(r, slot)) =>
                  r.errors[slot] = IF slot = "body"
                                   THEN [kind |-> "string",
                                         value |-> "Invalid JSON in request body"]
                                   ELSE [kind |-> "string",
                                         value |-> "Invalid form data"]
        /\ (SchemaAccepted(r, "body") /\ SchemaAccepted(r, "formData")) =>
             /\ r.body = r.applied["formData"].result.data
             /\ r.body # r.applied["body"].result.data
             /\ r.handlerCalls > 0 =>
                  r.handlerArgs.body = r.applied["formData"].result.data
        /\ (SchemaAccepted(r, "body") /\ Failed(r, "formData")) =>
             /\ r.handlerCalls = 0
             /\ (Finished(r) /\ ~Escaped(r)) =>
                  /\ r.response.status = 400
                  /\ "formData" \in DOMAIN r.response.body.errors
                  /\ "body" \notin DOMAIN r.response.body.errors

\* Both schemas accepted and the handler was given the form schema's value
\* as body, not the body schema's.
C25_Witness ==
  \E i \in Reqs :
    /\ BothConfigured(req[i])
    /\ SchemaAccepted(req[i], "body") /\ SchemaAccepted(req[i], "formData")
    /\ req[i].handlerCalls = 1
    /\ req[i].handlerArgs.body = req[i].applied["formData"].result.data
    /\ req[i].handlerArgs.body # req[i].applied["body"].result.data

----------------------------------------------------------------------------
(* C26 *)

InnerSlots == {"body", "formData"}
OuterSlots == {"query", "pathParams", "headers"}

\* The validators that come after the slot's.
Later(slot) ==
  CASE slot = "body" -> {"formData", "query", "pathParams", "headers"}
    [] slot = "formData" -> {"query", "pathParams", "headers"}
    [] slot = "query" -> {"pathParams", "headers"}
    [] slot = "pathParams" -> {"headers"}
    [] slot = "headers" -> {}

\* The validator of the slot has something to do for this request.
Due(r, slot) ==
  /\ Configured(r, slot)
  /\ slot = "pathParams" => ContextHasParams(r)

\* A throw of the body or form schema is recorded as the slot's sentinel and
\* is not what the outer catch caught.
CaughtByOwnStep(r) ==
  \A slot \in InnerSlots : SchemaThrew(r, slot) =>
    /\ slot \in DOMAIN r.errors
    /\ r.errors[slot] =
         [kind |-> "string",
          value |-> IF slot = "body" THEN "Invalid JSON in request body"
                    ELSE "Invalid form data"]
    /\ r.logged # r.applied[slot].result.throws
    /\ r.handlerCalls = 0

\* A throw of the query, path-parameter or header schema ends the request
\* with the 500 response; no later validator runs, the handler is not called.
EndsRequest(r) ==
  \A slot \in OuterSlots : SchemaThrew(r, slot) =>
    /\ Finished(r) /\ Escaped(r)
    /\ r.logged = r.applied[slot].result.throws
    /\ r.response = [status |-> 500,
                     body |-> [error |-> "Internal server error"]]
    /\ slot \notin DOMAIN r.errors
    /\ \A later \in Later(slot) : ~Ran(r, later)
    /\ r.handlerCalls = 0

\* C26 as stated: a request in which the body or form schema threw ends in
\* the 400 response, after the remaining validators have run.
C26_AsStated ==
  \A i \in Reqs :
    /\ CaughtByOwnStep(req[i])
    /\ EndsRequest(req[i])
    /\ \A slot \in InnerSlots :
         (SchemaThrew(req[i], slot) /\ Finished(req[i])) =>
           /\ req[i].response.status = 400
           /\ \A later \in Later(slot) : Due(req[i], later) => Ran(req[i], later)

\* C26 amended: a request in which the body or form schema threw ends in the
\* 400 response, after the remaining validators have run, unless the query,
\* path-parameter or header schema throws too, which ends it with the 500
\* response as it ends any request.
C26_SchemaExceptions ==
  \A i \in Reqs :
    /\ CaughtByOwnStep(req[i])
    /\ EndsRequest(req[i])
    /\ \A slot \in InnerSlots :
         (SchemaThrew(req[i], slot) /\ Finished(req[i])) =>
           IF \E outer \in OuterSlots : SchemaThrew(req[i], outer)
           THEN req[i].response.status = 500
           ELSE /\ req[i].response.status = 400
                /\ req[i].response.body.errors = req[i].errors
                /\ \A later \in Later(slot) :
                     Due(req[i], later) => Ran(req[i], later)

\* The body schema threw on a body that was read, the query and header
\* validators ran after it, and the response is 400 with the sentinel.
C26_Witness ==
  \E i \in Reqs :
    /\ Finished(req[i]) /\ "json" \in req[i].reads
    /\ SchemaThrew(req[i], "body")
    /\ SchemaAccepted(req[i], "query") /\ SchemaAccepted(req[i], "headers")
    /\ req[i].response =
         [status |-> 400,
          body |-> [errors |-> [body |-> [kind |-> "string",
                                          value |-> "Invalid JSON in request body"]]]]

====
